---- MODULE Spec2Model ----
(***************************************************************************)
(* Model of the resilient AWS client manager of MediMate                   *)
(* (src/backend/utils/aws_clients.py): CircuitBreaker, ConnectionPool,     *)
(* ServiceHealthMonitor and AWSClientManager, run by concurrent threads.   *)
(* Every thread executes one operation at a time; an operation is split    *)
(* into the steps between which the interpreter may switch threads: a      *)
(* region under a threading.Lock is one step, an unlocked read-modify-write*)
(* is a read step and a write step.                                        *)
(***************************************************************************)
EXTENDS Integers, Sequences, FiniteSets, TLC

(* ------------------------------ bounds --------------------------------- *)
NumThreads == 2
MaxNow == 1
MaxCalls == 3
MaxConnections == 2
MaxAcquire == 3
MaxFailureCount == 5
MaxRetries == 3
MaxRecords == 6

(* ------------------------- program constants --------------------------- *)
Services == {"dynamodb", "s3"}
Threads == 1..NumThreads

CLOSED == "closed"
OPEN == "open"
HALF_OPEN == "half_open"
CircuitBreakerState == {CLOSED, OPEN, HALF_OPEN}

\* one clock unit is 30 seconds
TimeUnit == 30
failure_threshold == [s \in Services |-> 3]
recovery_timeout == [s \in Services |-> 30]

\* values of a cache slot / of a result: a handle is the id of the thread
\* whose construction built it
Absent == -1
NoneVal == 0
NoTime == -1

VARIABLES
  enabled,                \* aws_config['services'][s]['enabled']
  clients,                \* AWSClientManager._clients
  cb_state,               \* CircuitBreaker.state
  cb_failure_count,       \* CircuitBreaker.failure_count
  cb_last_failure_time,   \* CircuitBreaker.last_failure_time
  cb_lock,                \* CircuitBreaker._lock: 0 or the holding thread
  health,                 \* ServiceHealthMonitor._service_health
  active_connections,     \* ConnectionPool._active_connections
  now,                    \* datetime.now(), in clock units
  pc,                     \* position of each thread
  loc,                    \* locals of the operation each thread is in
  streak,                 \* history: consecutive accessor calls that found no
                          \* handle and returned None, per service
  acquired_ok,            \* history: acquire_connection calls that succeeded
  acquire_failed,         \* history: acquire_connection calls that raised
  released,               \* history: "no" release yet, only "unmatched" ones
                          \* (at counter 0), or "yes", a permit was given back
  direct_held,            \* history: permits taken by direct acquire_connection
                          \* calls and not given back by a direct release
  fail_run,               \* history: record_failure calls since the last
                          \* record_success, per service (counted up to 5)
  cb_run,                 \* history: _on_failure calls since the last
                          \* _on_success or reset of the breaker, per service
                          \* (counted up to failure_threshold)
  reset_open              \* history: per service, TRUE from a
                          \* reset_circuit_breakers call that found the breaker
                          \* OPEN until the next accessor call of the service
                          \* returns, its cache entry is evicted or a wrapped
                          \* call is made

vars == <<enabled, clients, cb_state, cb_failure_count, cb_last_failure_time,
          cb_lock, health, active_connections, now, pc, loc,
          streak, acquired_ok, acquire_failed, released, direct_held, fail_run,
          cb_run, reset_open>>


cbvars == <<cb_state, cb_failure_count, cb_last_failure_time, cb_lock>>

NoHealth ==
  [present |-> FALSE, success_count |-> 0, failure_count |-> 0,
   last_success |-> NoTime, last_failure |-> NoTime,
   consecutive_failures |-> 0, last_error |-> "none"]

\* an exception: its class and the attempt of retry_on_failure that raised it
NoError == [cls |-> "none", attempt |-> 0]

\* what get_health_status returned, when the thread has called it
NoReport == [status |-> "none"]

\* locals of health_check: the services still to visit, the client status of
\* the service being visited, the entries of health_status written so far,
\* enabled_services, the two counters and the summary
NoEntry == [status |-> "none"]
NoCheck ==
  [active |-> FALSE, todo |-> <<>>, client |-> "none",
   health_status |-> [s \in Services |-> NoEntry],
   enabled_services |-> <<>>, healthy_services |-> 0, critical_services |-> 0,
   summary |-> [overall_status |-> "none"]]

\* locals of retry_on_failure.wrapper: its parameters, `retries`, the number
\* of invocations of func so far, the pre-jitter waits slept so far, the
\* exception `e` of the latest invocation, `last_exception`, the exception the
\* wrapper raises and whether an invocation returned
NoRetry ==
  [max_retries |-> 0, delay |-> 0, backoff |-> 0, retries |-> 0, calls |-> 0,
   waits |-> <<>>, e |-> NoError, last_exception |-> NoError, raised |-> NoError,
   ok |-> FALSE]

IdleLoc ==
  [op |-> "none", svc |-> "s3", res |-> Absent, c |-> 0,
   acq |-> FALSE, con |-> FALSE, exc |-> FALSE, rej |-> FALSE, todo |-> <<>>,
   cb0 |-> "na", half |-> FALSE, rt |-> NoRetry, err |-> "none", attempts |-> 0,
   arg |-> "na", report |-> NoReport, hc |-> NoCheck]

Init ==
  /\ enabled \in [Services -> BOOLEAN]
  /\ Cardinality({s \in Services : enabled[s]}) <= 1
  /\ clients = [s \in Services |-> Absent]
  /\ cb_state = [s \in Services |-> CLOSED]
  /\ cb_failure_count = [s \in Services |-> 0]
  /\ cb_last_failure_time = [s \in Services |-> NoTime]
  /\ cb_lock = [s \in Services |-> 0]
  /\ health = [s \in Services |-> NoHealth]
  /\ active_connections = 0
  /\ now = 0
  /\ pc = [t \in Threads |-> "idle"]
  /\ loc = [t \in Threads |-> IdleLoc]
  /\ streak = [s \in Services |-> 0]
  /\ acquired_ok = 0
  /\ acquire_failed = 0
  /\ released = "no"
  /\ direct_held = 0
  /\ fail_run = [s \in Services |-> 0]
  /\ cb_run = [s \in Services |-> 0]
  /\ reset_open = [s \in Services |-> FALSE]

(* ------------------------------ helpers -------------------------------- *)
Svc(t) == loc[t].svc

IsDynamo(t) == loc[t].op = "get_dynamodb"

\* variant of the threshold test that opens one failure late
threshold_exceeded(s, n) == n > failure_threshold[s]

\* CircuitBreaker._on_failure: `if self.failure_count >= self.failure_threshold`
threshold_reached(s, n) == n >= failure_threshold[s]

\* CircuitBreaker._should_attempt_reset
should_attempt_reset(s) ==
  /\ cb_last_failure_time[s] # NoTime
  /\ (now - cb_last_failure_time[s]) * TimeUnit >= recovery_timeout[s]

\* how a caller finds the breaker of s: closed or half open ("na"), open
\* with the recovery timeout still running ("blocked") or elapsed ("eligible")
BreakerAt(s) ==
  IF cb_state[s] # OPEN THEN "na"
  ELSE IF should_attempt_reset(s) THEN "eligible" ELSE "blocked"

\* calls recorded or in flight for service s
InFlight(s) ==
  Cardinality({t \in DOMAIN pc : pc[t] # "idle" /\ loc[t].svc = s
                 /\ loc[t].op \in {"get_generic", "get_dynamodb", "cb_call"}})

Recorded(s) == health[s].success_count + health[s].failure_count

Goto(t, p) == pc' = [pc EXCEPT ![t] = p]

\* what get_client_status makes of the accessor's outcome: 'healthy' for a
\* handle, 'unavailable' for None, 'error' for an exception
client_status(t) ==
  IF pc[t] = "key_error" THEN "error"
  ELSE IF pc[t] = "ret" /\ clients[Svc(t)] > NoneVal THEN "healthy"
  ELSE "unavailable"

\* the operation of thread t is over; an accessor that get_client_status
\* called for health_check returns into health_check
Finish(t) ==
  IF loc[t].hc.active /\ loc[t].op # "health_check"
    THEN /\ pc' = [pc EXCEPT ![t] = "hc_status"]
         /\ loc' = [loc EXCEPT ![t] =
                      [IdleLoc EXCEPT !.op = "health_check", !.svc = Svc(t),
                                      !.hc = [loc[t].hc EXCEPT !.client = client_status(t)]]]
    ELSE /\ pc' = [pc EXCEPT ![t] = "idle"]
         /\ loc' = [loc EXCEPT ![t] = IdleLoc]

\* end of the `with self._lock` block of CircuitBreaker.__call__
Unlock(t) ==
  /\ cb_lock' = [cb_lock EXCEPT ![Svc(t)] = 0]
  /\ Finish(t)

\* where a thread goes once _on_failure is done: the wrapper re-raises and
\* leaves its lock, an accessor stores None
AfterOnFailure(t) ==
  IF loc[t].op = "cb_call"
    THEN Unlock(t)
    ELSE Goto(t, "store") /\ UNCHANGED <<cb_lock, loc>>

(* --------------------------- history variables ------------------------- *)
\* thread t returns from an accessor in this step
Returns(t) == pc[t] \in {"ret", "ret_none"} /\ pc'[t] \in {"idle", "hc_status"}

\* the value it returns
Returned(t) == IF pc[t] = "ret" THEN clients[Svc(t)] ELSE NoneVal

\* a success is recorded on the breaker of s, its breaker is reset or its
\* cache entry is dropped in this step
Interrupts(s) ==
  \/ (clients[s] # Absent /\ clients'[s] = Absent)
  \/ \E t \in DOMAIN pc : /\ loc'[t].svc = s
                            /\ pc'[t] \in {"succ_count", "rst_count"}
                            /\ pc'[t] # pc[t]

NextStreak ==
  [s \in Services |->
     IF Interrupts(s) THEN 0
     ELSE IF \E t \in DOMAIN pc : Returns(t) /\ Svc(t) = s
       THEN IF \E t \in DOMAIN pc : Returns(t) /\ Svc(t) = s /\ Returned(t) = NoneVal
              THEN IF streak[s] < failure_threshold[s] THEN streak[s] + 1 ELSE streak[s]
              ELSE 0
       ELSE streak[s]]

\* acquire_connection raises in this step
AcquireRaises ==
  \E t \in DOMAIN pc : \/ (pc[t] = "idle" /\ pc'[t] = "pool_raise")
                         \/ (pc[t] = "acquire" /\ pc'[t] = "rec_fail")

\* a history counter stops at MaxAcquire
Count(n) == IF n < MaxAcquire THEN n + 1 ELSE n

\* thresholds of get_health_status on consecutive_failures
CriticalAfter == 5
DegradedAfter == 3

\* the monitor records a success / a failure of service s in this step
SuccessRecorded(s) == health'[s].success_count > health[s].success_count
FailureRecorded(s) == health'[s].failure_count > health[s].failure_count

NextFailRun ==
  [s \in Services |->
     IF SuccessRecorded(s) THEN 0
     ELSE IF FailureRecorded(s) /\ fail_run[s] < CriticalAfter THEN fail_run[s] + 1
     ELSE fail_run[s]]

\* a thread zeroes the failure_count of the breaker of s (in _on_success or
\* in a reset) / counts a failure on it (in _on_failure) in this step
BreakerCleared(s) ==
  \E t \in DOMAIN pc : /\ Svc(t) = s /\ pc[t] \in {"succ_count", "rst_count"}
                        /\ pc'[t] # pc[t]
BreakerFailure(s) ==
  \E t \in DOMAIN pc : Svc(t) = s /\ pc[t] = "fail_write" /\ pc'[t] # pc[t]

NextCbRun ==
  [s \in Services |->
     IF BreakerCleared(s) THEN 0
     ELSE IF BreakerFailure(s) /\ cb_run[s] < failure_threshold[s] THEN cb_run[s] + 1
     ELSE cb_run[s]]

\* reset_open[s] is set when reset_circuit_breakers starts on the breaker of
\* s and finds it OPEN; it is cleared when an accessor of s returns, when the
\* cache entry of s is evicted, and when a wrapped call of the breaker enters
NextResetOpen ==
  [s \in Services |->
     IF \E t \in DOMAIN pc : /\ loc[t].op = "reset" /\ Svc(t) = s
                              /\ pc[t] = "rst_count" /\ pc'[t] # pc[t]
                              /\ cb_state[s] = OPEN
       THEN TRUE
     ELSE IF \/ \E t \in DOMAIN pc : Returns(t) /\ Svc(t) = s
             \/ (clients[s] # Absent /\ clients'[s] = Absent)
             \/ \E t \in DOMAIN pc :
                   /\ pc[t] = "idle" /\ pc'[t] \in {"cb_func", "cb_reject"}
                   /\ loc'[t].svc = s
       THEN FALSE
     ELSE reset_open[s]]

\* what every step does to the history variables
Track ==
  /\ streak' = NextStreak
  /\ acquired_ok' = IF active_connections' > active_connections
                      THEN Count(acquired_ok) ELSE acquired_ok
  /\ acquire_failed' = IF AcquireRaises THEN Count(acquire_failed) ELSE acquire_failed
  /\ released' = IF active_connections' < active_connections THEN "yes" ELSE released
  /\ direct_held' = IF active_connections' > active_connections /\ pc' = pc
                       THEN direct_held + 1 ELSE direct_held
  /\ fail_run' = NextFailRun
  /\ cb_run' = NextCbRun
  /\ reset_open' = NextResetOpen

(* ------------------------------- clock --------------------------------- *)
Tick ==
  /\ now < MaxNow
  /\ now' = now + 1
  /\ UNCHANGED <<enabled, clients, cbvars, health, active_connections, pc, loc>>
  /\ Track

\* variant of the capacity test that admits one caller too many
pool_over_capacity(n) == n > MaxConnections

\* variant of the release that decrements without the `> 0` test
release_unguarded(n) == n - 1

(* --------------------------- ConnectionPool ---------------------------- *)
\* ConnectionPool.acquire_connection: the test under the lock
pool_exhausted(n) == n >= MaxConnections

\* ConnectionPool.release_connection: the counter after the call
release_connection(n) == IF n > 0 THEN n - 1 ELSE n

\* ConnectionPool.acquire_connection called by a thread on its own
AcquireConnection(t) ==
  /\ pc[t] = "idle"
  /\ IF pool_exhausted(active_connections)
       THEN /\ loc' = [loc EXCEPT ![t] = [IdleLoc EXCEPT !.op = "acquire"]]
            /\ Goto(t, "pool_raise")
            /\ UNCHANGED active_connections
       ELSE /\ active_connections' = active_connections + 1
            /\ UNCHANGED <<pc, loc>>
  /\ UNCHANGED <<enabled, clients, cbvars, health, now>>
  /\ Track

\* raise Exception("Connection pool exhausted") reaches the caller
PoolRaise(t) ==
  /\ pc[t] = "pool_raise"
  /\ Finish(t)
  /\ UNCHANGED <<enabled, clients, cbvars, health, active_connections, now>>
  /\ Track

\* ConnectionPool.release_connection called by a thread on its own
ReleaseConnection(t) ==
  /\ pc[t] = "idle"
  /\ active_connections' = release_connection(active_connections)
  /\ UNCHANGED <<enabled, clients, cbvars, health, now, pc, loc>>
  /\ streak' = NextStreak
  /\ released' = IF active_connections' < active_connections THEN "yes"
                  ELSE IF released = "no" THEN "unmatched" ELSE released
  /\ direct_held' = IF active_connections' < active_connections /\ direct_held > 0
                       THEN direct_held - 1 ELSE direct_held
  /\ UNCHANGED <<acquired_ok, acquire_failed, fail_run, cb_run, reset_open>>

(* ----------------------- ServiceHealthMonitor -------------------------- *)
\* variant of record_success that starts the failure statistics afresh
record_success_clear_failures(h, time) ==
  [h EXCEPT !.present = TRUE,
            !.success_count = h.success_count + 1,
            !.last_success = time,
            !.failure_count = 0,
            !.consecutive_failures = 0]

\* variant of record_success that leaves consecutive_failures alone
record_success_keep_run(h, time) ==
  [h EXCEPT !.present = TRUE,
            !.success_count = h.success_count + 1,
            !.last_success = time]

\* ServiceHealthMonitor.record_success (whole body under the monitor's lock)
record_success(h, time) ==
  [h EXCEPT !.present = TRUE,
            !.success_count = h.success_count + 1,
            !.last_success = time,
            !.consecutive_failures = 0]

\* ServiceHealthMonitor.record_failure (whole body under the monitor's lock)
record_failure(h, time, err) ==
  [h EXCEPT !.present = TRUE,
            !.failure_count = h.failure_count + 1,
            !.last_failure = time,
            !.consecutive_failures = h.consecutive_failures + 1,
            !.last_error = err]

\* `success_rate < 0.8` with success_rate = success_count / total_calls
rate_below_080(success_count, total_calls) == success_count * 10 < 8 * total_calls

\* variant of the classification that looks at the success rate first
get_health_status_rate_first(h) ==
  IF ~h.present
    THEN [status |-> "unknown", message |-> "No health data available"]
  ELSE LET total_calls == h.success_count + h.failure_count IN
    IF total_calls = 0
      THEN [status |-> "unknown", message |-> "No calls recorded"]
    ELSE [status |-> IF rate_below_080(h.success_count, total_calls) THEN "warning"
                     ELSE IF h.consecutive_failures >= CriticalAfter THEN "critical"
                     ELSE IF h.consecutive_failures >= DegradedAfter THEN "degraded"
                     ELSE "healthy",
          success_rate |-> <<h.success_count, total_calls>>,
          total_calls |-> total_calls,
          consecutive_failures |-> h.consecutive_failures,
          last_success |-> h.last_success,
          last_failure |-> h.last_failure,
          last_error |-> h.last_error]

\* ServiceHealthMonitor.get_health_status (whole body under the monitor's
\* lock); success_rate is kept as the pair <<success_count, total_calls>>
get_health_status(h) ==
  IF ~h.present
    THEN [status |-> "unknown", message |-> "No health data available"]
  ELSE LET total_calls == h.success_count + h.failure_count IN
    IF total_calls = 0
      THEN [status |-> "unknown", message |-> "No calls recorded"]
    ELSE [status |-> IF h.consecutive_failures >= CriticalAfter THEN "critical"
                     ELSE IF h.consecutive_failures >= DegradedAfter THEN "degraded"
                     ELSE IF rate_below_080(h.success_count, total_calls) THEN "warning"
                     ELSE "healthy",
          success_rate |-> <<h.success_count, total_calls>>,
          total_calls |-> total_calls,
          consecutive_failures |-> h.consecutive_failures,
          last_success |-> h.last_success,
          last_failure |-> h.last_failure,
          last_error |-> h.last_error]

\* errors a caller hands to record_failure
ErrorClasses == {"transient", "permanent"}

\* a thread calls health_monitor.record_success(s) (e = "none") or
\* health_monitor.record_failure(s, e) on its own
MonitorCall(t, s, e) ==
  /\ pc[t] = "idle"
  /\ Recorded(s) < MaxRecords
  /\ loc' = [loc EXCEPT ![t] = [IdleLoc EXCEPT !.op = "record", !.svc = s, !.err = e]]
  /\ Goto(t, IF e = "none" THEN "mon_succ" ELSE "mon_fail")
  /\ UNCHANGED <<enabled, clients, cbvars, health, active_connections, now>>
  /\ Track

\* the body of record_success, under the monitor's lock
MonitorRecordSuccess(t) ==
  /\ pc[t] = "mon_succ"
  /\ health' = [health EXCEPT ![Svc(t)] = record_success(@, now)]
  /\ Finish(t)
  /\ UNCHANGED <<enabled, clients, cbvars, active_connections, now>>
  /\ Track

\* the body of record_failure, under the monitor's lock
MonitorRecordFailure(t) ==
  /\ pc[t] = "mon_fail"
  /\ health' = [health EXCEPT ![Svc(t)] = record_failure(@, now, loc[t].err)]
  /\ Finish(t)
  /\ UNCHANGED <<enabled, clients, cbvars, active_connections, now>>
  /\ Track

\* health_monitor.get_health_status(s): the report is computed from the record
GetHealthStatus(t, s) ==
  /\ pc[t] = "idle"
  /\ loc' = [loc EXCEPT ![t] = [IdleLoc EXCEPT !.op = "get_health", !.svc = s,
                                               !.report = get_health_status(health[s])]]
  /\ Goto(t, "hs_ret")
  /\ UNCHANGED <<enabled, clients, cbvars, health, active_connections, now>>
  /\ Track

\* the report reaches the caller
HealthStatusReturn(t) ==
  /\ pc[t] = "hs_ret"
  /\ Finish(t)
  /\ UNCHANGED <<enabled, clients, cbvars, health, active_connections, now>>
  /\ Track

\* the threads inside a `with self._lock` block of the ServiceHealthMonitor;
\* the monitor has one lock for the records of all services
MonitorLockHolders ==
  {u \in DOMAIN pc : pc[u] \in {"hm_succ", "hm_fail", "hm_read"}}

\* a thread calls record_success(s) (e = "none"), record_failure(s, e) or
\* get_health_status(s) (e = "read") and arrives at `with self._lock`
MonitorEnter(t, s, e) ==
  /\ pc[t] = "idle"
  /\ loc' = [loc EXCEPT ![t] = [IdleLoc EXCEPT
               !.op = IF e = "read" THEN "get_health" ELSE "record",
               !.svc = s, !.err = e]]
  /\ Goto(t, "hm_wait")
  /\ UNCHANGED <<enabled, clients, cbvars, health, active_connections, now>>
  /\ Track

\* `with self._lock`: the thread gets the monitor's lock when no thread has it
MonitorLock(t) ==
  /\ pc[t] = "hm_wait"
  /\ MonitorLockHolders = {}
  /\ Goto(t, IF loc[t].err = "read" THEN "hm_read"
             ELSE IF loc[t].err = "none" THEN "hm_succ" ELSE "hm_fail")
  /\ UNCHANGED <<enabled, clients, cbvars, health, active_connections, now, loc>>
  /\ Track

\* the body of record_success; leaving it gives the lock back
MonitorLockedSuccess(t) ==
  /\ pc[t] = "hm_succ"
  /\ health' = [health EXCEPT ![Svc(t)] = record_success(@, now)]
  /\ Finish(t)
  /\ UNCHANGED <<enabled, clients, cbvars, active_connections, now>>
  /\ Track

\* the body of record_failure; leaving it gives the lock back
MonitorLockedFailure(t) ==
  /\ pc[t] = "hm_fail"
  /\ health' = [health EXCEPT ![Svc(t)] = record_failure(@, now, loc[t].err)]
  /\ Finish(t)
  /\ UNCHANGED <<enabled, clients, cbvars, active_connections, now>>
  /\ Track

\* the body of get_health_status; its `return` gives the lock back
MonitorLockedRead(t) ==
  /\ pc[t] = "hm_read"
  /\ loc' = [loc EXCEPT ![t].report = get_health_status(health[Svc(t)])]
  /\ Goto(t, "hs_ret")
  /\ UNCHANGED <<enabled, clients, cbvars, health, active_connections, now>>
  /\ Track

(* ------------------- AWSClientManager: the accessors ------------------- *)
Accessor(s) == IF s = "dynamodb" THEN "get_dynamodb" ELSE "get_generic"

\* max_retries of the retry_on_failure decorator of every accessor
AccessorRetries == 3

\* a thread calls get_<service>_client / get_dynamodb_resource. The accessor
\* runs inside retry_on_failure.wrapper, whose loop would call it again on a
\* ClientError/BotoCoreError; the accessor catches every Exception of the
\* construction itself, so the only exception that leaves it is the KeyError
\* of its last line, which the wrapper re-raises (KeyErrorRaise)
GetClient(t, s) ==
  /\ pc[t] = "idle"
  /\ Recorded(s) + InFlight(s) < MaxCalls
  /\ loc' = [loc EXCEPT ![t] = [IdleLoc EXCEPT !.op = Accessor(s), !.svc = s,
                                               !.cb0 = BreakerAt(s)]]
  /\ Goto(t, "check")
  /\ UNCHANGED <<enabled, clients, cbvars, health, active_connections, now>>
  /\ Track

\* variant of the accessor that does not look into the cache
CheckCacheSkipped(t) ==
  /\ pc[t] = "check"
  /\ Goto(t, "guard")
  /\ UNCHANGED <<enabled, clients, cbvars, health, active_connections, now, loc>>
  /\ Track

\* `if name not in self._clients`
CheckCache(t) ==
  /\ pc[t] = "check"
  /\ IF clients[Svc(t)] # Absent THEN Goto(t, "ret") ELSE Goto(t, "guard")
  /\ UNCHANGED <<enabled, clients, cbvars, health, active_connections, now, loc>>
  /\ Track

\* variant of the guard that omits the enabled check
breaker_only(s) == cb_state[s] = OPEN

\* variant of the guard that omits the circuit breaker check
disabled_only(s) == ~enabled[s]

\* `if not self._is_service_enabled(name)` and
\* `if circuit_breaker and circuit_breaker.state == CircuitBreakerState.OPEN`
unavailable(s) == ~enabled[s] \/ cb_state[s] = OPEN

\* the enabled check and the circuit breaker check; the generic accessor
\* stores the None it gets back, get_dynamodb_resource returns it directly
Guard(t) ==
  /\ pc[t] = "guard"
  /\ IF unavailable(Svc(t))
       THEN IF IsDynamo(t)
              THEN Goto(t, "ret_none") /\ UNCHANGED loc
              ELSE /\ loc' = [loc EXCEPT ![t].res = NoneVal, ![t].rej = TRUE]
                   /\ Goto(t, "store")
       ELSE /\ Goto(t, "acquire")
            /\ UNCHANGED loc
  /\ UNCHANGED <<enabled, clients, cbvars, health, active_connections, now>>
  /\ Track

\* variant of the accessor in which a refused acquire is not recorded as a
\* failure: the accessor just gives None
AcquireRefusalUnrecorded(t) ==
  /\ pc[t] = "acquire"
  /\ IF pool_exhausted(active_connections)
       THEN /\ loc' = [loc EXCEPT ![t].exc = TRUE, ![t].err = "pool",
                                  ![t].res = NoneVal]
            /\ Goto(t, "store")
            /\ UNCHANGED active_connections
       ELSE /\ active_connections' = active_connections + 1
            /\ loc' = [loc EXCEPT ![t].acq = TRUE]
            /\ Goto(t, "construct")
  /\ UNCHANGED <<enabled, clients, cbvars, health, now>>
  /\ Track

\* self.connection_pool.acquire_connection(); "Connection pool exhausted"
\* is raised outside the inner try, so nothing is released for it
Acquire(t) ==
  /\ pc[t] = "acquire"
  /\ IF pool_exhausted(active_connections)
       THEN /\ loc' = [loc EXCEPT ![t].exc = TRUE, ![t].err = "pool"]
            /\ Goto(t, "rec_fail")
            /\ UNCHANGED active_connections
       ELSE /\ active_connections' = active_connections + 1
            /\ loc' = [loc EXCEPT ![t].acq = TRUE]
            /\ Goto(t, "construct")
  /\ UNCHANGED <<enabled, clients, cbvars, health, now>>
  /\ Track

\* outcomes of a construction: it succeeds, raises a transient error (a
\* ClientError/BotoCoreError: network, timeout, throttling) or a permanent
\* one (malformed configuration, invalid argument)
ConstructOutcomes == {"ok", "transient", "permanent"}

\* session.client(...) / session.resource(...) and the table listing:
\* succeeds or raises; on success the health monitor records it
Construct(t) ==
  /\ pc[t] = "construct"
  /\ \E out \in ConstructOutcomes :
       IF out = "ok"
         THEN /\ health' = [health EXCEPT ![Svc(t)] = record_success(@, now)]
              /\ loc' = [loc EXCEPT ![t].con = TRUE, ![t].res = t,
                                    ![t].attempts = @ + 1]
              /\ Goto(t, "succ_count")
         ELSE /\ loc' = [loc EXCEPT ![t].con = TRUE, ![t].exc = TRUE,
                                    ![t].err = out, ![t].attempts = @ + 1]
              /\ Goto(t, "release")
              /\ UNCHANGED health
  /\ UNCHANGED <<enabled, clients, cbvars, active_connections, now>>
  /\ Track

\* variant of _on_success whose first statement leaves failure_count alone
OnSuccessKeepCount(t) ==
  /\ pc[t] = "succ_count"
  /\ Goto(t, "succ_state")
  /\ UNCHANGED <<enabled, clients, cbvars, health, active_connections, now, loc>>
  /\ Track

\* CircuitBreaker._on_success, first statement: self.failure_count = 0
OnSuccessCount(t) ==
  /\ pc[t] = "succ_count"
  /\ cb_failure_count' = [cb_failure_count EXCEPT ![Svc(t)] = 0]
  /\ Goto(t, "succ_state")
  /\ UNCHANGED <<enabled, clients, cb_state, cb_last_failure_time, cb_lock, health,
                 active_connections, now, loc>>
  /\ Track

\* CircuitBreaker._on_success, second statement: self.state = CLOSED
OnSuccessState(t) ==
  /\ pc[t] = "succ_state"
  /\ cb_state' = [cb_state EXCEPT ![Svc(t)] = CLOSED]
  /\ IF loc[t].op = "cb_call"
       THEN Unlock(t)
       ELSE /\ Goto(t, IF IsDynamo(t) THEN "store" ELSE "release")
            /\ UNCHANGED <<cb_lock, loc>>
  /\ UNCHANGED <<enabled, clients, cb_failure_count, cb_last_failure_time,
                 health, active_connections, now>>
  /\ Track

\* variant of the release that is skipped when construction raised
ReleaseOnSuccessOnly(t) ==
  /\ pc[t] = "release"
  /\ active_connections' = IF loc[t].exc THEN active_connections
                            ELSE release_connection(active_connections)
  /\ Goto(t, IF loc[t].exc THEN "rec_fail" ELSE IF IsDynamo(t) THEN "ret" ELSE "store")
  /\ UNCHANGED <<enabled, clients, cbvars, health, now, loc>>
  /\ Track

\* `finally: self.connection_pool.release_connection()`
Release(t) ==
  /\ pc[t] = "release"
  /\ active_connections' = release_connection(active_connections)
  /\ Goto(t, IF loc[t].exc THEN "rec_fail" ELSE IF IsDynamo(t) THEN "ret" ELSE "store")
  /\ UNCHANGED <<enabled, clients, cbvars, health, now, loc>>
  /\ Track

\* `except Exception as e: self.health_monitor.record_failure(name, e)`
RecordFailure(t) ==
  /\ pc[t] = "rec_fail"
  /\ health' = [health EXCEPT ![Svc(t)] =
                  record_failure(@, now, loc[t].err)]
  /\ loc' = [loc EXCEPT ![t].res = NoneVal]
  /\ Goto(t, "fail_read")
  /\ UNCHANGED <<enabled, clients, cbvars, active_connections, now>>
  /\ Track

\* CircuitBreaker._on_failure: `self.failure_count += 1` reads the counter ...
OnFailureRead(t) ==
  /\ pc[t] = "fail_read"
  /\ loc' = [loc EXCEPT ![t].c = cb_failure_count[Svc(t)]]
  /\ Goto(t, "fail_write")
  /\ UNCHANGED <<enabled, clients, cbvars, health, active_connections, now>>
  /\ Track

\* ... and writes it back, sets last_failure_time and compares with the threshold
OnFailureWrite(t) ==
  /\ pc[t] = "fail_write"
  /\ cb_failure_count' = [cb_failure_count EXCEPT ![Svc(t)] = loc[t].c + 1]
  /\ cb_last_failure_time' = [cb_last_failure_time EXCEPT ![Svc(t)] = now]
  /\ IF threshold_reached(Svc(t), loc[t].c + 1)
       THEN Goto(t, "fail_open") /\ UNCHANGED <<cb_lock, loc>>
       ELSE AfterOnFailure(t)
  /\ UNCHANGED <<enabled, clients, cb_state, health, active_connections, now>>
  /\ Track

\* CircuitBreaker._on_failure: self.state = OPEN
OnFailureOpen(t) ==
  /\ pc[t] = "fail_open"
  /\ cb_state' = [cb_state EXCEPT ![Svc(t)] = OPEN]
  /\ AfterOnFailure(t)
  /\ UNCHANGED <<enabled, clients, cb_failure_count, cb_last_failure_time,
                 health, active_connections, now>>
  /\ Track

\* `self._clients[name] = ...`
Store(t) ==
  /\ pc[t] = "store"
  /\ clients' = [clients EXCEPT ![Svc(t)] = loc[t].res]
  /\ Goto(t, IF IsDynamo(t) /\ ~loc[t].exc THEN "release" ELSE "ret")
  /\ UNCHANGED <<enabled, cbvars, health, active_connections, now, loc>>
  /\ Track

\* `return None` of get_dynamodb_resource for a disabled service or an OPEN breaker
ReturnNone(t) ==
  /\ pc[t] = "ret_none"
  /\ Finish(t)
  /\ UNCHANGED <<enabled, clients, cbvars, health, active_connections, now>>
  /\ Track

\* `return self._clients[name]`: the value of the entry, or KeyError when
\* the entry is gone
Return(t) ==
  /\ pc[t] = "ret"
  /\ IF clients[Svc(t)] = Absent
       THEN Goto(t, "key_error") /\ UNCHANGED loc
       ELSE Finish(t)
  /\ UNCHANGED <<enabled, clients, cbvars, health, active_connections, now>>
  /\ Track

\* KeyError is no ClientError/BotoCoreError: retry_on_failure logs it and
\* re-raises it to the caller of the accessor (or of force_refresh_client)
KeyErrorRaise(t) ==
  /\ pc[t] = "key_error"
  /\ Finish(t)
  /\ UNCHANGED <<enabled, clients, cbvars, health, active_connections, now>>
  /\ Track

(* -------------------- AWSClientManager: maintenance -------------------- *)
\* variant of the refresh that drops only the entries that hold None
RefreshClientsKeepHandles(t) ==
  /\ pc[t] = "idle"
  /\ clients' = [s \in Services |-> IF clients[s] = NoneVal THEN Absent ELSE clients[s]]
  /\ UNCHANGED <<enabled, cbvars, health, active_connections, now, pc, loc>>
  /\ Track

\* AWSClientManager.refresh_clients: self._clients.clear()
RefreshClients(t) ==
  /\ pc[t] = "idle"
  /\ clients' = [s \in Services |-> Absent]
  /\ UNCHANGED <<enabled, cbvars, health, active_connections, now, pc, loc>>
  /\ Track

\* AWSClientManager.reset_circuit_breakers(name), or every breaker in the
\* order of the circuit_breakers dict when no name is given; a name without
\* a breaker only logs a warning
ResetOrder == <<"dynamodb", "s3">>

\* arguments of reset_circuit_breakers: the name of a service, "all" for a
\* call without argument (service_name = None), the empty string, and the
\* name of a service that has no breaker
ResetNames == Services \cup {"all", "", "redshift"}

\* `if service_name:` is false for None and for the empty string
name_is_falsy(name) == name \in {"all", ""}

ResetCircuitBreakers(t, name) ==
  /\ pc[t] = "idle"
  /\ name \in ResetNames
  /\ IF name_is_falsy(name) \/ name \in Services
       THEN /\ loc' = [loc EXCEPT ![t] = [IdleLoc EXCEPT
                        !.op = "reset", !.arg = name,
                        !.svc = IF name_is_falsy(name) THEN Head(ResetOrder) ELSE name,
                        !.todo = IF name_is_falsy(name) THEN Tail(ResetOrder) ELSE <<>>]]
            /\ Goto(t, "rst_count")
       ELSE /\ loc' = [loc EXCEPT ![t] = [IdleLoc EXCEPT !.op = "reset", !.arg = name]]
            /\ Goto(t, "rst_warn")
  /\ UNCHANGED <<enabled, clients, cbvars, health, active_connections, now>>
  /\ Track

\* `logger.warning("No circuit breaker found ...")`: the call returns
ResetWarn(t) ==
  /\ pc[t] = "rst_warn"
  /\ Finish(t)
  /\ UNCHANGED <<enabled, clients, cbvars, health, active_connections, now>>
  /\ Track

\* variant of the reset that leaves failure_count as it is
ResetCountSkipped(t) ==
  /\ pc[t] = "rst_count"
  /\ Goto(t, "rst_state")
  /\ UNCHANGED <<enabled, clients, cbvars, health, active_connections, now, loc>>
  /\ Track

\* breaker.failure_count = 0
ResetCount(t) ==
  /\ pc[t] = "rst_count"
  /\ cb_failure_count' = [cb_failure_count EXCEPT ![Svc(t)] = 0]
  /\ Goto(t, "rst_state")
  /\ UNCHANGED <<enabled, clients, cb_state, cb_last_failure_time, cb_lock, health,
                 active_connections, now, loc>>
  /\ Track

\* breaker.state = CircuitBreakerState.CLOSED
ResetState(t) ==
  /\ pc[t] = "rst_state"
  /\ cb_state' = [cb_state EXCEPT ![Svc(t)] = CLOSED]
  /\ Goto(t, "rst_time")
  /\ UNCHANGED <<enabled, clients, cb_failure_count, cb_last_failure_time, cb_lock,
                 health, active_connections, now, loc>>
  /\ Track

\* breaker.last_failure_time = None, then the next breaker if any
ResetTime(t) ==
  /\ pc[t] = "rst_time"
  /\ cb_last_failure_time' = [cb_last_failure_time EXCEPT ![Svc(t)] = NoTime]
  /\ IF loc[t].todo = <<>>
       THEN Finish(t)
       ELSE /\ loc' = [loc EXCEPT ![t].svc = Head(loc[t].todo),
                                  ![t].todo = Tail(loc[t].todo)]
            /\ Goto(t, "rst_count")
  /\ UNCHANGED <<enabled, clients, cb_state, cb_failure_count, cb_lock, health,
                 active_connections, now>>
  /\ Track

\* AWSClientManager.force_refresh_client: `if service_name in self._clients`
ForceRefreshClient(t, s) ==
  /\ pc[t] = "idle"
  /\ IF clients[s] # Absent
       THEN /\ loc' = [loc EXCEPT ![t] = [IdleLoc EXCEPT !.op = "force_refresh", !.svc = s]]
            /\ Goto(t, "fr_del")
       ELSE /\ loc' = [loc EXCEPT ![t] = [IdleLoc EXCEPT !.op = "force_refresh", !.svc = s]]
            /\ Goto(t, "fr_skip")
  /\ UNCHANGED <<enabled, clients, cbvars, health, active_connections, now>>
  /\ Track

\* no entry for the service: force_refresh_client returns at once
ForceRefreshSkip(t) ==
  /\ pc[t] = "fr_skip"
  /\ Finish(t)
  /\ UNCHANGED <<enabled, clients, cbvars, health, active_connections, now>>
  /\ Track

\* variant of the eviction that empties the whole cache
ForceRefreshClearsCache(t) ==
  /\ pc[t] = "fr_del"
  /\ IF clients[Svc(t)] = Absent
       THEN /\ Goto(t, "key_error")
            /\ UNCHANGED <<clients, loc>>
       ELSE /\ clients' = [s \in Services |-> Absent]
            /\ Goto(t, "rst_count")
            /\ UNCHANGED loc
  /\ UNCHANGED <<enabled, cbvars, health, active_connections, now>>
  /\ Track

\* `del self._clients[service_name]` (KeyError when the entry is gone by
\* now), then the breaker of the service is reset
ForceRefreshDel(t) ==
  /\ pc[t] = "fr_del"
  /\ IF clients[Svc(t)] = Absent
       THEN /\ Goto(t, "key_error")
            /\ UNCHANGED <<clients, loc>>
       ELSE /\ clients' = [clients EXCEPT ![Svc(t)] = Absent]
            /\ Goto(t, "rst_count")
            /\ UNCHANGED loc
  /\ UNCHANGED <<enabled, cbvars, health, active_connections, now>>
  /\ Track

(* ------------------- AWSClientManager.health_check --------------------- *)
\* the `services` list of health_check
CheckOrder == <<"dynamodb", "s3">>

\* health_check is called
HealthCheck(t) ==
  /\ pc[t] = "idle"
  /\ loc' = [loc EXCEPT ![t] = [IdleLoc EXCEPT !.op = "health_check",
                !.hc = [NoCheck EXCEPT !.active = TRUE, !.todo = CheckOrder]]]
  /\ Goto(t, "hc_loop")
  /\ UNCHANGED <<enabled, clients, cbvars, health, active_connections, now>>
  /\ Track

\* `for service in services`: get_client_status(service) calls the accessor
\* of the service; after the loop the summary is computed
HealthCheckLoop(t) ==
  /\ pc[t] = "hc_loop"
  /\ IF loc[t].hc.todo = <<>>
       THEN Goto(t, "hc_summary") /\ UNCHANGED loc
       ELSE LET s == Head(loc[t].hc.todo) IN
            /\ loc' = [loc EXCEPT ![t] = [IdleLoc EXCEPT !.op = Accessor(s), !.svc = s,
                                                         !.cb0 = BreakerAt(s),
                                                         !.hc = loc[t].hc]]
            /\ Goto(t, "check")
  /\ UNCHANGED <<enabled, clients, cbvars, health, active_connections, now>>
  /\ Track

\* the entry of one service: the status of get_health_status replaces the
\* one of get_client_status (`service_status.update(health_data)`), the
\* breaker is added, and an enabled service is counted
entry_of(t, s) ==
  [status |-> get_health_status(health[s]).status,
   client_initialized |-> (loc[t].hc.client = "healthy"),
   health_data |-> get_health_status(health[s]),
   circuit_breaker |-> [state |-> cb_state[s],
                        failure_count |-> cb_failure_count[s],
                        last_failure_time |-> cb_last_failure_time[s]]]

\* variant of the counting that does not look at the enabled flag
counted_always(s) == TRUE

\* `if self._is_service_enabled(service)`
counted(s) == enabled[s]

HealthCheckStatus(t) ==
  /\ pc[t] = "hc_status"
  /\ LET s == Svc(t)
         e == entry_of(t, s)
         h == loc[t].hc
     IN loc' = [loc EXCEPT ![t].hc =
                 [h EXCEPT !.todo = Tail(h.todo),
                           !.health_status = [h.health_status EXCEPT ![s] = e],
                           !.enabled_services =
                              IF enabled[s] THEN Append(@, s) ELSE @,
                           !.healthy_services =
                              IF counted(s) /\ e.status = "healthy" THEN @ + 1 ELSE @,
                           !.critical_services =
                              IF counted(s) /\ e.status = "critical" THEN @ + 1 ELSE @]]
  /\ Goto(t, "hc_loop")
  /\ UNCHANGED <<enabled, clients, cbvars, health, active_connections, now>>
  /\ Track

\* the overall status of the summary
overall_status(enabled_count, healthy, critical) ==
  IF enabled_count = 0 THEN "unknown"
  ELSE IF critical > 0 THEN "critical"
  ELSE IF healthy * 10 < enabled_count * 8 THEN "degraded"
  ELSE IF healthy = enabled_count THEN "healthy"
  ELSE "warning"

\* health_status['summary']; utilization is kept as the pair
\* <<_active_connections, max_connections>>
HealthCheckSummary(t) ==
  /\ pc[t] = "hc_summary"
  /\ LET h == loc[t].hc
         enabled_count == Len(h.enabled_services)
     IN loc' = [loc EXCEPT ![t].hc.summary =
                 [healthy_services |-> h.healthy_services,
                  critical_services |-> h.critical_services,
                  enabled_services |-> enabled_count,
                  total_services |-> Len(CheckOrder),
                  overall_status |-> overall_status(enabled_count, h.healthy_services,
                                                    h.critical_services),
                  enabled_service_list |-> h.enabled_services,
                  connection_pool |-> [active_connections |-> active_connections,
                                       max_connections |-> MaxConnections,
                                       utilization |-> <<active_connections, MaxConnections>>]]]
  /\ Goto(t, "hc_ret")
  /\ UNCHANGED <<enabled, clients, cbvars, health, active_connections, now>>
  /\ Track

\* `return health_status`
HealthCheckReturn(t) ==
  /\ pc[t] = "hc_ret"
  /\ pc' = [pc EXCEPT ![t] = "idle"]
  /\ loc' = [loc EXCEPT ![t] = IdleLoc]
  /\ UNCHANGED <<enabled, clients, cbvars, health, active_connections, now>>
  /\ Track

HealthCheckStep(t) ==
  \/ HealthCheckLoop(t) \/ HealthCheckStatus(t) \/ HealthCheckSummary(t)
  \/ HealthCheckReturn(t)

(* ------------------- CircuitBreaker.__call__ wrapper ------------------- *)
\* variant of the entry that counts a refused call as a failure
CallEnterCountsRefusal(t, s) ==
  /\ pc[t] = "idle"
  /\ cb_lock[s] = 0
  /\ cb_failure_count[s] < MaxFailureCount
  /\ cb_lock' = [cb_lock EXCEPT ![s] = t]
  /\ loc' = [loc EXCEPT ![t] = [IdleLoc EXCEPT !.op = "cb_call", !.svc = s]]
  /\ IF cb_state[s] = OPEN /\ ~should_attempt_reset(s)
       THEN /\ Goto(t, "cb_reject")
            /\ cb_failure_count' = [cb_failure_count EXCEPT ![s] = @ + 1]
            /\ UNCHANGED cb_state
       ELSE /\ cb_state' = [cb_state EXCEPT ![s] =
                              IF cb_state[s] = OPEN THEN HALF_OPEN ELSE @]
            /\ Goto(t, "cb_func")
            /\ UNCHANGED cb_failure_count
  /\ UNCHANGED <<enabled, clients, cb_last_failure_time, health,
                 active_connections, now>>
  /\ Track

\* entry of the wrapper: takes the breaker's lock; an OPEN breaker moves to
\* HALF_OPEN when the recovery timeout has elapsed, else the call is refused
\* with "Circuit breaker OPEN" and the wrapped function is not run
CallEnter(t, s) ==
  /\ pc[t] = "idle"
  /\ cb_lock[s] = 0
  /\ cb_failure_count[s] < MaxFailureCount
  /\ cb_lock' = [cb_lock EXCEPT ![s] = t]
  /\ loc' = [loc EXCEPT ![t] = [IdleLoc EXCEPT !.op = "cb_call", !.svc = s]]
  /\ IF cb_state[s] = OPEN /\ ~should_attempt_reset(s)
       THEN /\ Goto(t, "cb_reject")
            /\ UNCHANGED cb_state
       ELSE /\ cb_state' = [cb_state EXCEPT ![s] =
                              IF cb_state[s] = OPEN THEN HALF_OPEN ELSE @]
            /\ Goto(t, "cb_func")
  /\ UNCHANGED <<enabled, clients, cb_failure_count, cb_last_failure_time, health,
                 active_connections, now>>
  /\ Track

\* raise Exception("Circuit breaker OPEN ...") leaves the `with` block
CallReject(t) ==
  /\ pc[t] = "cb_reject"
  /\ Unlock(t)
  /\ UNCHANGED <<enabled, clients, cb_state, cb_failure_count, cb_last_failure_time,
                 health, active_connections, now>>
  /\ Track

\* the wrapped function runs under the lock and returns or raises
CallFunc(t) ==
  /\ pc[t] = "cb_func"
  /\ \E ok \in BOOLEAN : Goto(t, IF ok THEN "succ_count" ELSE "fail_read")
  /\ loc' = [loc EXCEPT ![t].half = (cb_state[Svc(t)] = HALF_OPEN)]
  /\ UNCHANGED <<enabled, clients, cbvars, health, active_connections, now>>
  /\ Track

(* -------------------------- retry_on_failure --------------------------- *)
\* parameters the decorator is given: max_retries, delay in half seconds
\* (0.5 s, 1 s, 2 s) and backoff
RetryCounts == 0..MaxRetries
Delays == {1, 2, 4}
Backoffs == {2, 3}

\* outcomes of one invocation of the wrapped function: it returns, raises a
\* ClientError/BotoCoreError, or raises any other Exception
Outcomes == {"ok", "retryable", "other"}

RECURSIVE Pow(_, _)
Pow(b, k) == IF k = 0 THEN 1 ELSE b * Pow(b, k - 1)

\* variant of the wait that does not grow with the attempt
flat_wait_time(d, b, r) == d

\* `base_wait_time = delay * (backoff ** (retries - 1))`
base_wait_time(d, b, r) == d * Pow(b, r - 1)

\* a decorated function is called: `retries = 0; last_exception = None`
RetryCall(t, n, d, b) ==
  /\ pc[t] = "idle"
  /\ loc' = [loc EXCEPT ![t] = [IdleLoc EXCEPT !.op = "retry",
               !.rt = [NoRetry EXCEPT !.max_retries = n, !.delay = d, !.backoff = b]]]
  /\ Goto(t, "rt_test")
  /\ UNCHANGED <<enabled, clients, cbvars, health, active_connections, now>>
  /\ Track

\* `while retries < max_retries`, and after the loop
\* `if last_exception: raise last_exception`, else the wrapper returns None
RetryTest(t) ==
  /\ pc[t] = "rt_test"
  /\ IF loc[t].rt.retries < loc[t].rt.max_retries
       THEN Goto(t, "rt_func") /\ UNCHANGED loc
       ELSE IF loc[t].rt.last_exception # NoError
         THEN /\ loc' = [loc EXCEPT ![t].rt.raised = loc[t].rt.last_exception]
              /\ Goto(t, "rt_raise")
         ELSE Goto(t, "rt_ret") /\ UNCHANGED loc
  /\ UNCHANGED <<enabled, clients, cbvars, health, active_connections, now>>
  /\ Track

\* `return func(*args, **kwargs)`: one invocation, which returns or raises
RetryFunc(t) ==
  /\ pc[t] = "rt_func"
  /\ \E out \in Outcomes :
       LET k == loc[t].rt.calls + 1 IN
       IF out = "ok"
         THEN /\ loc' = [loc EXCEPT ![t].rt.calls = k, ![t].rt.ok = TRUE]
              /\ Goto(t, "rt_ret")
         ELSE /\ loc' = [loc EXCEPT ![t].rt.calls = k,
                                    ![t].rt.e = [cls |-> out, attempt |-> k]]
              /\ Goto(t, IF out = "retryable" THEN "rt_except" ELSE "rt_unexpected")
  /\ UNCHANGED <<enabled, clients, cbvars, health, active_connections, now>>
  /\ Track

\* variant of the handler that returns when the retries are used up
RetryExceptSwallow(t) ==
  /\ pc[t] = "rt_except"
  /\ LET r == loc[t].rt.retries + 1 IN
       IF r >= loc[t].rt.max_retries
         THEN /\ loc' = [loc EXCEPT ![t].rt.retries = r,
                                    ![t].rt.last_exception = loc[t].rt.e]
              /\ Goto(t, "rt_ret")
         ELSE /\ loc' = [loc EXCEPT ![t].rt.retries = r,
                                    ![t].rt.last_exception = loc[t].rt.e,
                                    ![t].rt.waits = Append(@,
                                       base_wait_time(loc[t].rt.delay, loc[t].rt.backoff, r))]
              /\ Goto(t, "rt_sleep")
  /\ UNCHANGED <<enabled, clients, cbvars, health, active_connections, now>>
  /\ Track

\* `except exceptions as e`: count the retry, raise e when max_retries is
\* reached, else compute the wait (the jitter of at most 5 % added to it
\* only changes how long the sleep lasts)
RetryExcept(t) ==
  /\ pc[t] = "rt_except"
  /\ LET r == loc[t].rt.retries + 1 IN
       IF r >= loc[t].rt.max_retries
         THEN /\ loc' = [loc EXCEPT ![t].rt.retries = r,
                                    ![t].rt.last_exception = loc[t].rt.e,
                                    ![t].rt.raised = loc[t].rt.e]
              /\ Goto(t, "rt_raise")
         ELSE /\ loc' = [loc EXCEPT ![t].rt.retries = r,
                                    ![t].rt.last_exception = loc[t].rt.e,
                                    ![t].rt.waits = Append(@,
                                       base_wait_time(loc[t].rt.delay, loc[t].rt.backoff, r))]
              /\ Goto(t, "rt_sleep")
  /\ UNCHANGED <<enabled, clients, cbvars, health, active_connections, now>>
  /\ Track

\* variant that hands every other exception to the retry handler
RetryUnexpectedRetried(t) ==
  /\ pc[t] = "rt_unexpected"
  /\ Goto(t, "rt_except")
  /\ UNCHANGED <<enabled, clients, cbvars, health, active_connections, now, loc>>
  /\ Track

\* `except Exception as e: raise e`
RetryUnexpected(t) ==
  /\ pc[t] = "rt_unexpected"
  /\ loc' = [loc EXCEPT ![t].rt.raised = loc[t].rt.e]
  /\ Goto(t, "rt_raise")
  /\ UNCHANGED <<enabled, clients, cbvars, health, active_connections, now>>
  /\ Track

\* `time.sleep(wait_time)` is over
RetrySleep(t) ==
  /\ pc[t] = "rt_sleep"
  /\ Goto(t, "rt_test")
  /\ UNCHANGED <<enabled, clients, cbvars, health, active_connections, now, loc>>
  /\ Track

\* the wrapper returns to its caller
RetryReturn(t) ==
  /\ pc[t] = "rt_ret"
  /\ Finish(t)
  /\ UNCHANGED <<enabled, clients, cbvars, health, active_connections, now>>
  /\ Track

\* the wrapper raises to its caller
RetryRaise(t) ==
  /\ pc[t] = "rt_raise"
  /\ Finish(t)
  /\ UNCHANGED <<enabled, clients, cbvars, health, active_connections, now>>
  /\ Track

(* ------------------------------ scheduling ---------------------------- *)
\* the steps inside retry_on_failure.wrapper
RetryStep(t) ==
  \/ RetryTest(t) \/ RetryFunc(t) \/ RetryExcept(t) \/ RetryUnexpected(t)
  \/ RetrySleep(t) \/ RetryReturn(t) \/ RetryRaise(t)

\* the steps inside an accessor
AccessorStep(t) ==
  \/ CheckCache(t) \/ Guard(t) \/ Acquire(t) \/ Construct(t) \/ Release(t)
  \/ RecordFailure(t) \/ Store(t) \/ Return(t)

\* the steps of CircuitBreaker._on_success and _on_failure
BreakerStep(t) ==
  \/ OnSuccessCount(t) \/ OnSuccessState(t)
  \/ OnFailureRead(t) \/ OnFailureWrite(t) \/ OnFailureOpen(t)

ResetStep(t) == ResetCount(t) \/ ResetState(t) \/ ResetTime(t)

ForceRefreshStep(t) == ForceRefreshDel(t) \/ ForceRefreshSkip(t)

WrapperStep(t) == CallFunc(t) \/ CallReject(t)

PoolCall(t) == AcquireConnection(t) \/ ReleaseConnection(t) \/ PoolRaise(t)

\* services that are switched on: callers use the breaker wrapper and the
\* maintenance operations for these; the accessors are called for every service
Used == {s \in Services : enabled[s]}

(* ---------------------------- specifications --------------------------- *)
\* the operations a thread may start
Call(t) ==
  \/ \E s \in Services : GetClient(t, s)
  \/ RefreshClients(t)
  \/ \E name \in Used \cup {"all"} : ResetCircuitBreakers(t, name)
  \/ \E s \in Used : ForceRefreshClient(t, s)
  \/ \E s \in Used : CallEnter(t, s)

\* every operation of every thread, interleaved
Next ==
  \/ Tick
  \/ \E t \in Threads :
       \/ Call(t) \/ PoolCall(t) \/ AccessorStep(t) \/ ReturnNone(t) \/ KeyErrorRaise(t)
       \/ BreakerStep(t) \/ ResetStep(t) \/ ForceRefreshStep(t) \/ WrapperStep(t)
       \/ \E n \in RetryCounts, d \in Delays, b \in Backoffs : RetryCall(t, n, d, b)
       \/ RetryStep(t)

Spec == Init /\ [][Next]_vars

\* one caller: every operation runs to its end before the next one starts
SeqNext ==
  \/ Tick
  \/ Call(1) \/ AccessorStep(1) \/ ReturnNone(1)
  \/ BreakerStep(1) \/ ResetStep(1) \/ ForceRefreshStep(1) \/ WrapperStep(1)

SeqSpec == Init /\ [][SeqNext]_vars

\* concurrent callers of the accessors and of the refresh operations
ConcCall(t) ==
  \/ \E s \in Services : GetClient(t, s)
  \/ RefreshClients(t)
  \/ \E s \in Used : ForceRefreshClient(t, s)

ConcNext ==
  \E t \in Threads :
    \/ ConcCall(t) \/ AccessorStep(t) \/ ReturnNone(t) \/ KeyErrorRaise(t)
    \/ BreakerStep(t) \/ ResetStep(t) \/ ForceRefreshStep(t)

ConcSpec == Init /\ [][ConcNext]_vars

\* concurrent users of one breaker: wrapped calls and manual resets
BreakerNext ==
  \/ Tick
  \/ \E t \in Threads :
       \/ \E s \in Used : CallEnter(t, s)
       \/ \E name \in Used \cup {"all"} : ResetCircuitBreakers(t, name)
       \/ WrapperStep(t) \/ BreakerStep(t) \/ ResetStep(t)

BreakerSpec == Init /\ [][BreakerNext]_vars

\* concurrent users of the pool: every thread acquires and releases directly,
\* and thread 1 also calls the accessors, which acquire and release inside
PoolNext ==
  \/ \E t \in Threads : PoolCall(t)
  \/ \E s \in Services : GetClient(1, s)
  \/ AccessorStep(1) \/ ReturnNone(1)
  \/ OnSuccessCount(1) \/ OnSuccessState(1) \/ OnFailureRead(1) \/ OnFailureWrite(1)

PoolSpec == Init /\ [][PoolNext]_vars

\* concurrent accessors next to threads that take permits directly and keep
\* them, so that an accessor can find the pool exhausted
PermitNext ==
  \E t \in Threads :
    \/ AcquireConnection(t) \/ PoolRaise(t)
    \/ \E s \in Services : GetClient(t, s)
    \/ RefreshClients(t)
    \/ AccessorStep(t) \/ ReturnNone(t) \/ KeyErrorRaise(t) \/ BreakerStep(t)

PermitSpec == Init /\ [][PermitNext]_vars

\* one caller of a function decorated with retry_on_failure, for every
\* choice of the decorator's parameters; an invocation and a sleep end, so a
\* wrapper that can take a step eventually takes it
RetryNext ==
  \/ \E n \in RetryCounts, d \in Delays, b \in Backoffs : RetryCall(1, n, d, b)
  \/ RetryStep(1)

RetrySpec == Init /\ [][RetryNext]_vars /\ WF_vars(RetryStep(1))

\* one caller that keeps calling the accessors while the clock runs; wrapped
\* calls may happen, manual resets and refreshes do not
LiveNext ==
  \/ Tick
  \/ \E s \in Services : GetClient(1, s)
  \/ \E s \in Used : CallEnter(1, s)
  \/ AccessorStep(1) \/ ReturnNone(1) \/ BreakerStep(1) \/ WrapperStep(1)

LiveSpec ==
  /\ Init
  /\ [][LiveNext]_vars
  /\ WF_vars(Tick)
  /\ WF_vars(AccessorStep(1) \/ ReturnNone(1) \/ BreakerStep(1) \/ WrapperStep(1))
  /\ \A s \in Services : SF_vars(GetClient(1, s))

\* one caller of the accessors who clears the cache between calls; no other
\* operation removes an entry
RefreshNext ==
  \/ \E s \in Services : GetClient(1, s)
  \/ RefreshClients(1)
  \/ AccessorStep(1) \/ ReturnNone(1) \/ BreakerStep(1)

RefreshSpec == Init /\ [][RefreshNext]_vars

\* one caller who drives every breaker through its wrapper and resets
\* breakers by hand, with every kind of argument
ManualResetNext ==
  \/ Tick
  \/ \E s \in Services : CallEnter(1, s)
  \/ \E name \in ResetNames : ResetCircuitBreakers(1, name)
  \/ WrapperStep(1) \/ BreakerStep(1) \/ ResetStep(1) \/ ResetWarn(1)

ManualResetSpec == Init /\ [][ManualResetNext]_vars

\* two services that are both switched on, and more callers than the pool
\* has permits: the first MaxConnections callers use s3, the last one dynamodb
Callers == 1..(MaxConnections + 1)

IsolationInit ==
  /\ enabled = [s \in Services |-> TRUE]
  /\ clients = [s \in Services |-> Absent]
  /\ cb_state = [s \in Services |-> CLOSED]
  /\ cb_failure_count = [s \in Services |-> 0]
  /\ cb_last_failure_time = [s \in Services |-> NoTime]
  /\ cb_lock = [s \in Services |-> 0]
  /\ health = [s \in Services |-> NoHealth]
  /\ active_connections = 0
  /\ now = 0
  /\ pc = [t \in Callers |-> "idle"]
  /\ loc = [t \in Callers |-> IdleLoc]
  /\ streak = [s \in Services |-> 0]
  /\ acquired_ok = 0
  /\ acquire_failed = 0
  /\ released = "no"
  /\ direct_held = 0
  /\ fail_run = [s \in Services |-> 0]
  /\ cb_run = [s \in Services |-> 0]
  /\ reset_open = [s \in Services |-> FALSE]

IsolationNext ==
  \/ \E t \in 1..MaxConnections : GetClient(t, "s3")
  \/ GetClient(MaxConnections + 1, "dynamodb")
  \/ \E t \in Callers :
       \/ AccessorStep(t)
       \/ OnSuccessCount(t) \/ OnSuccessState(t) \/ OnFailureRead(t) \/ OnFailureWrite(t)

IsolationSpec == IsolationInit /\ [][IsolationNext]_vars

\* one user of the health monitor: it records successes and failures of a
\* service and reads the status
MonitorNext ==
  \/ \E s \in Services, e \in ErrorClasses \cup {"none"} : MonitorCall(1, s, e)
  \/ MonitorRecordSuccess(1) \/ MonitorRecordFailure(1)
  \/ \E s \in Services : GetHealthStatus(1, s)
  \/ HealthStatusReturn(1)

MonitorSpec == Init /\ [][MonitorNext]_vars

\* any subset of the services is switched on
SnapshotInit ==
  /\ enabled \in [Services -> BOOLEAN]
  /\ clients = [s \in Services |-> Absent]
  /\ cb_state = [s \in Services |-> CLOSED]
  /\ cb_failure_count = [s \in Services |-> 0]
  /\ cb_last_failure_time = [s \in Services |-> NoTime]
  /\ cb_lock = [s \in Services |-> 0]
  /\ health = [s \in Services |-> NoHealth]
  /\ active_connections = 0
  /\ now = 0
  /\ pc = [t \in Threads |-> "idle"]
  /\ loc = [t \in Threads |-> IdleLoc]
  /\ streak = [s \in Services |-> 0]
  /\ acquired_ok = 0
  /\ acquire_failed = 0
  /\ released = "no"
  /\ direct_held = 0
  /\ fail_run = [s \in Services |-> 0]
  /\ cb_run = [s \in Services |-> 0]
  /\ reset_open = [s \in Services |-> FALSE]

\* one caller of health_check; failures are recorded for the services and
\* one permit is taken from the pool between its calls
SnapshotNext ==
  \/ \E s \in Services : MonitorCall(1, s, "transient")
  \/ MonitorRecordFailure(1)
  \/ (active_connections = 0 /\ AcquireConnection(1))
  \/ HealthCheck(1) \/ HealthCheckStep(1)
  \/ AccessorStep(1) \/ ReturnNone(1)
  \/ OnSuccessCount(1) \/ OnSuccessState(1) \/ OnFailureRead(1) \/ OnFailureWrite(1)

SnapshotSpec == SnapshotInit /\ [][SnapshotNext]_vars

\* one caller of every operation of the manager and of the monitor; the
\* maintenance operations and the monitor are used for the services that
\* are switched on
ManagerNext ==
  \/ \E s \in Services : GetClient(1, s)
  \/ RefreshClients(1)
  \/ \E name \in Used \cup {"all"} : ResetCircuitBreakers(1, name)
  \/ \E s \in Used : ForceRefreshClient(1, s)
  \/ \E s \in Used, e \in {"none", "transient"} :
        Recorded(s) < MaxCalls /\ MonitorCall(1, s, e)
  \/ ((\A s \in Services : Recorded(s) < MaxCalls) /\ HealthCheck(1))
  \/ AccessorStep(1) \/ ReturnNone(1) \/ BreakerStep(1)
  \/ ResetStep(1) \/ ForceRefreshStep(1)
  \/ MonitorRecordSuccess(1) \/ MonitorRecordFailure(1)
  \/ HealthCheckStep(1)

ManagerSpec == Init /\ [][ManagerNext]_vars

\* outcomes the monitor has recorded, for all services together
AllRecorded == Recorded("dynamodb") + Recorded("s3")

\* concurrent users of the locks: every thread records outcomes in the
\* monitor and reads the status of any service, and makes wrapped calls
\* through the breaker of a service that is switched on
LockNext ==
  \E t \in Threads :
    \/ \E s \in Services, e \in {"none", "transient", "read"} :
         AllRecorded < MaxCalls /\ MonitorEnter(t, s, e)
    \/ MonitorLock(t) \/ MonitorLockedSuccess(t) \/ MonitorLockedFailure(t)
    \/ MonitorLockedRead(t) \/ HealthStatusReturn(t)
    \/ \E s \in Used : CallEnter(t, s)
    \/ WrapperStep(t) \/ BreakerStep(t)

LockSpec == Init /\ [][LockNext]_vars

\* one caller of the operations that are addressed to one service, with any
\* subset of the services switched on; refresh_clients lets a service be
\* constructed more than once
FrameNext ==
  \/ \E s \in Services : AllRecorded < MaxCalls /\ GetClient(1, s)
  \/ \E s \in Services : ResetCircuitBreakers(1, s)
  \/ \E s \in Services : ForceRefreshClient(1, s)
  \/ \E s \in Services, e \in {"none", "transient"} :
        AllRecorded < MaxCalls /\ MonitorCall(1, s, e)
  \/ RefreshClients(1)
  \/ AccessorStep(1) \/ ReturnNone(1) \/ BreakerStep(1)
  \/ ResetStep(1) \/ ForceRefreshStep(1)
  \/ MonitorRecordSuccess(1) \/ MonitorRecordFailure(1)

FrameSpec == SnapshotInit /\ [][FrameNext]_vars

\* one caller of the accessors, who clears the cache between calls, next to
\* a thread that takes permits from the pool directly and gives them back
ExhaustNext ==
  \/ \E s \in Services : GetClient(1, s)
  \/ RefreshClients(1)
  \/ AccessorStep(1) \/ ReturnNone(1) \/ BreakerStep(1)
  \/ PoolCall(2)

ExhaustSpec == Init /\ [][ExhaustNext]_vars

\* what a cache slot or a result holds
Kind(v) == IF v > NoneVal THEN "handle" ELSE IF v = NoneVal THEN "none" ELSE "absent"

\* dynamodb and s3 are in the same state: same enabled flag, same kind of
\* cache entry, same breaker fields, same health record
Mirror ==
  /\ enabled["dynamodb"] = enabled["s3"]
  /\ Kind(clients["dynamodb"]) = Kind(clients["s3"])
  /\ cb_state["dynamodb"] = cb_state["s3"]
  /\ cb_failure_count["dynamodb"] = cb_failure_count["s3"]
  /\ cb_last_failure_time["dynamodb"] = cb_last_failure_time["s3"]
  /\ health["dynamodb"] = health["s3"]

\* thread t has reached the return statement of its accessor
AtReturn(t) == pc[t] \in {"ret", "ret_none"}

\* the manager after construction, with dynamodb and s3 switched on or off
\* together
EquivInit == SnapshotInit /\ enabled["dynamodb"] = enabled["s3"]

\* get_dynamodb_resource and a generic accessor side by side: from a state
\* in which the two services are alike, thread 1 runs get_dynamodb_resource
\* up to its return statement, then thread 2 runs get_s3_client up to its
\* return statement, then both return; between two rounds the cache may be
\* cleared and permits may be taken from the pool directly
EquivNext ==
  \/ (Mirror /\ pc[2] = "idle" /\ GetClient(1, "dynamodb"))
  \/ (AtReturn(1) /\ GetClient(2, "s3"))
  \/ \E t \in Threads :
       \/ CheckCache(t) \/ Guard(t) \/ Acquire(t) \/ Construct(t) \/ Release(t)
       \/ RecordFailure(t) \/ Store(t) \/ BreakerStep(t)
  \/ (AtReturn(2) /\ Return(1))
  \/ (AtReturn(2) /\ ReturnNone(1))
  \/ (pc[1] = "idle" /\ Return(2))
  \/ (pc[1] = "idle" /\ pc[2] = "idle" /\ RefreshClients(1))
  \/ (pc[1] = "idle" /\ AcquireConnection(2))
  \/ PoolRaise(2)

EquivSpec == EquivInit /\ [][EquivNext]_vars

(* ------------------------------- claims -------------------------------- *)
IsAccessor(t) == loc[t].op \in {"get_generic", "get_dynamodb"}

\* C1: an accessor never raises to its caller, whatever other threads do:
\* no thread is ever propagating a KeyError out of an accessor.
C1_NeverRaises == \A t \in Threads : ~(pc[t] = "key_error" /\ IsAccessor(t))

\* thread t returns from an accessor that it called, and that ran, while the
\* breaker was open with the recovery timeout not elapsed
ReturnsWhileBlocked(t) ==
  /\ Returns(t)
  /\ loc[t].cb0 = "blocked"
  /\ BreakerAt(Svc(t)) = "blocked"

\* a wrapped call enters while the breaker is open and the timeout not elapsed
EntersWhileBlocked(t) ==
  /\ pc[t] = "idle" /\ pc'[t] \in {"cb_func", "cb_reject"}
  /\ BreakerAt(loc'[t].svc) = "blocked"

\* C2 as written: while the breaker is open and the recovery timeout has not
\* elapsed, the accessor returns None without acquiring a permit and without
\* attempting construction, and a wrapped call is refused without running the
\* wrapped function.
C2_Orig ==
  [][\A t \in Threads :
       /\ ReturnsWhileBlocked(t) =>
            Returned(t) = NoneVal /\ ~loc[t].acq /\ ~loc[t].con
       /\ EntersWhileBlocked(t) => pc'[t] = "cb_reject"
       /\ pc[t] = "cb_reject" => pc'[t] \in {"cb_reject", "idle"}]_vars

\* C2 amended: the same, except that a handle already in the cache is returned
\* (an accessor that is not refused at the breaker check returned a cache hit).
C2_OpenBlocksConstruction ==
  [][\A t \in Threads :
       /\ ReturnsWhileBlocked(t) =>
            /\ ~loc[t].acq /\ ~loc[t].con
            /\ Returned(t) = NoneVal \/ (~loc[t].rej /\ Returned(t) > NoneVal)
       /\ EntersWhileBlocked(t) => pc'[t] = "cb_reject"
       /\ pc[t] = "cb_reject" => pc'[t] \in {"cb_reject", "idle"}]_vars

C2_Witness ==
  \E t \in Threads : /\ pc[t] \in {"store", "ret_none"}
                     /\ loc[t].rej /\ loc[t].cb0 = "blocked"
                     /\ enabled[Svc(t)] /\ BreakerAt(Svc(t)) = "blocked"

\* C3: failure_threshold consecutive accessor calls that find no handle and
\* return None, on an enabled service and with no success, reset or refresh
\* in between, leave the breaker open.
C3_Orig ==
  \A s \in Services :
    (pc[1] = "idle" /\ enabled[s] /\ streak[s] >= failure_threshold[s])
      => cb_state[s] = OPEN

\* C4: an accessor called for an enabled service whose breaker is open with
\* the recovery timeout elapsed, and which finds no handle in the cache,
\* moves the breaker to half open and attempts construction.
C4_Orig ==
  [][\A t \in Threads :
       (Returns(t) /\ loc[t].cb0 = "eligible" /\ enabled[Svc(t)]
          /\ Returned(t) = NoneVal)
         => loc[t].con]_vars

\* a construction or a wrapped call of service s has just failed
FailureSeen(s) ==
  \E t \in Threads : /\ Svc(t) = s
                     /\ \/ pc[t] = "fail_read"
                        \/ (pc[t] = "release" /\ loc[t].exc)

WrappedCall(s) ==
  \E t \in Threads : Svc(t) = s /\ pc[t] \in {"cb_func", "cb_reject"}

\* C5: when the breaker of an enabled service is open with the recovery
\* timeout elapsed and callers keep calling the accessor, then, unless some
\* construction fails again or the breaker is driven through its wrapper
\* instead, the accessor eventually caches a handle and leaves the breaker
\* closed with failure_count = 0.
C5_Orig ==
  \A s \in Services :
    [](enabled[s] /\ BreakerAt(s) = "eligible"
         => <>(\/ FailureSeen(s)
               \/ WrappedCall(s)
               \/ (cb_state[s] = CLOSED /\ cb_failure_count[s] = 0
                     /\ clients[s] > NoneVal)))

\* C6: with one caller at a time, once failure_count has reached
\* failure_threshold (no success or reset has zeroed it) the breaker is open
\* after every completed operation, also after further failures.
C6_OpenAtThreshold ==
  \A s \in Services :
    (pc[1] = "idle" /\ cb_failure_count[s] >= failure_threshold[s])
      => cb_state[s] = OPEN

C6_Witness ==
  \E s \in Services : /\ pc[1] = "idle"
                      /\ cb_failure_count[s] > failure_threshold[s]
                      /\ cb_state[s] = OPEN

\* C7: a wrapped call that succeeds while the breaker is half open ends with
\* the breaker closed and failure_count = 0, also while other threads queue
\* for the breaker or reset it.
C7_HalfOpenSuccess ==
  [][\A t \in Threads :
       (loc[t].op = "cb_call" /\ loc[t].half /\ pc[t] = "succ_state"
          /\ pc'[t] = "idle")
         => (cb_state'[Svc(t)] = CLOSED /\ cb_failure_count'[Svc(t)] = 0)]_vars

C7_Witness ==
  \E t \in Threads : /\ loc[t].op = "cb_call" /\ loc[t].half
                     /\ pc[t] = "succ_state"
                     /\ cb_state[Svc(t)] = HALF_OPEN

\* C8: a wrapped call that fails while the breaker is half open ends with
\* the breaker open and last_failure_time set, whatever failure_count was.
C8_Orig ==
  [][\A t \in Threads :
       (loc[t].op = "cb_call" /\ loc[t].half
          /\ pc[t] \in {"fail_write", "fail_open"} /\ pc'[t] = "idle")
         => (cb_state'[Svc(t)] = OPEN
               /\ cb_last_failure_time'[Svc(t)] # NoTime)]_vars

\* C9: 0 <= active_connections <= max_connections in every reachable state,
\* whatever acquire and release calls the threads make, also after a release
\* that no acquire preceded.
C9_PoolBound == 0 <= active_connections /\ active_connections <= MaxConnections

\* a release at counter 0 has happened and later the pool is full, with an
\* acquire being refused
C9_Witness ==
  /\ released = "unmatched"
  /\ active_connections = MaxConnections
  /\ \E t \in Threads : pc[t] = "pool_raise"

\* C10: acquire_connection at capacity raises at once and leaves the counter
\* unchanged, an idle thread can always call it (it never waits), and as
\* long as nothing has been released, of more than max_connections calls
\* exactly max_connections have succeeded.
C10_FailFast ==
  /\ [](\A t \in Threads : pc[t] = "idle" => ENABLED AcquireConnection(t))
  /\ []((released # "yes" /\ acquired_ok + acquire_failed > MaxConnections)
          => acquired_ok = MaxConnections)
  /\ [][\A t \in Threads :
          /\ (pc[t] = "idle" /\ pc'[t] = "pool_raise")
               => (active_connections = MaxConnections
                     /\ active_connections' = active_connections)
          /\ (pc[t] = "idle" /\ active_connections = MaxConnections)
               => active_connections' <= active_connections]_vars

C10_Witness ==
  /\ released # "yes"
  /\ acquired_ok = MaxConnections
  /\ acquire_failed >= 1
  /\ \E t \in Threads : pc[t] = "pool_raise"
\* thread t is in an accessor between its acquire_connection and the
\* release_connection of the `finally`
HoldsPermit(t) ==
  /\ IsAccessor(t)
  /\ loc[t].acq
  /\ \/ pc[t] \in {"construct", "succ_count", "succ_state", "release"}
     \/ (pc[t] = "store" /\ IsDynamo(t) /\ ~loc[t].exc)

\* C11: the permits in use are exactly those of the accessors that are
\* between acquire and release (next to the permits taken directly); an
\* accessor whose acquire failed holds none, and an accessor that is past
\* its release, or no accessor at all, leaves none behind.
C11_PermitBalance ==
  /\ active_connections
       = direct_held + Cardinality({t \in Threads : HoldsPermit(t)})
  /\ (\A t \in Threads : ~IsAccessor(t)) => active_connections = direct_held

\* an accessor found the pool exhausted, and another one failed in
\* construction and has released its permit
C11_Witness ==
  /\ \E t \in Threads : IsAccessor(t) /\ pc[t] = "rec_fail" /\ ~loc[t].acq
  /\ \E t \in Threads : IsAccessor(t) /\ pc[t] = "rec_fail" /\ loc[t].acq
\* thread t is inside an accessor of a service that is switched off
InDisabled(t) == IsAccessor(t) /\ pc[t] # "idle" /\ ~enabled[Svc(t)]

\* C12: an accessor of a disabled service returns None, and no step of it
\* changes a breaker's state, failure_count or last_failure_time, a health
\* record or active_connections, on the first call and on every later one.
C12_DisabledNoEffect ==
  [][\A t \in Threads :
       InDisabled(t) =>
         /\ UNCHANGED <<cb_state, cb_failure_count, cb_last_failure_time,
                        health, active_connections>>
         /\ Returns(t) => Returned(t) = NoneVal]_vars

\* a repeated call on a disabled service is about to return
C12_Witness ==
  \E t \in Threads : /\ InDisabled(t)
                     /\ pc[t] \in {"ret", "ret_none"}
                     /\ streak[Svc(t)] >= 2
\* C13: the cache has an entry for a service only after a successful
\* construction: it never holds None, and an accessor that returns None
\* leaves the service without an entry.
C13_Orig ==
  /\ [](\A s \in Services : clients[s] # NoneVal)
  /\ [][\A t \in Threads :
          (Returns(t) /\ Returned(t) = NoneVal) => clients'[Svc(t)] = Absent]_vars
\* thread t is in an accessor that found a handle in the cache: it is at the
\* cache test, or at the return without having constructed anything itself
CacheHit(t) ==
  /\ IsAccessor(t)
  /\ pc[t] \in {"check", "ret"}
  /\ ~loc[t].con
  /\ clients[Svc(t)] > NoneVal

\* C14: with one caller at a time (so no refresh in between), an accessor
\* that finds a handle in the cache goes from the cache test straight to
\* the return and returns that handle; it does not reach the breaker check,
\* takes no permit, constructs nothing, and changes neither the cache, a
\* breaker, a health record nor the pool.
C14_CachedHandle ==
  [][\A t \in Threads :
       CacheHit(t) =>
         /\ pc'[t] \in {pc[t], IF pc[t] = "check" THEN "ret" ELSE "idle"}
         /\ UNCHANGED <<clients, cb_state, cb_failure_count, cb_last_failure_time,
                        health, active_connections>>
         /\ ~loc'[t].acq /\ ~loc'[t].con
         /\ Returns(t) => Returned(t) = clients[Svc(t)]]_vars

\* a cached handle is being returned although the breaker is open
C14_Witness ==
  \E t \in Threads : /\ CacheHit(t) /\ pc[t] = "ret"
                     /\ cb_state[Svc(t)] = OPEN
\* the wrapper of thread 1 and its locals
InRetry == loc[1].op = "retry"
Rt == loc[1].rt

\* C15: the wrapper invokes func at most max_retries times and always comes
\* to an end; when it raises a retryable error (every attempt failed with
\* one) it has invoked func exactly max_retries times and slept exactly
\* max_retries - 1 times, the k-th wait before jitter being
\* delay * backoff^(k-1), strictly increasing in k.
C15_RetryBound ==
  /\ [](InRetry => Rt.calls <= Rt.max_retries)
  /\ (InRetry ~> pc[1] = "idle")
  /\ []((InRetry /\ pc[1] = "rt_raise" /\ Rt.raised.cls = "retryable") =>
          /\ Rt.calls = Rt.max_retries
          /\ Len(Rt.waits) = Rt.max_retries - 1
          /\ \A k \in 1..Len(Rt.waits) :
                Rt.waits[k] = Rt.delay * Pow(Rt.backoff, k - 1)
          /\ \A k \in 1..(Len(Rt.waits) - 1) : Rt.waits[k] < Rt.waits[k + 1])

\* all MaxRetries attempts failed: the wrapper raises after two sleeps
C15_Witness ==
  /\ InRetry /\ pc[1] = "rt_raise" /\ Rt.raised.cls = "retryable"
  /\ Rt.max_retries = MaxRetries /\ Len(Rt.waits) = MaxRetries - 1
\* C16: an exception of func that is no ClientError/BotoCoreError is raised
\* to the caller as it is, on whichever attempt it occurs: the wrapper is
\* on its way out with that exception, it does not count a retry, sleep or
\* invoke func again.
C16_NonRetryablePropagates ==
  /\ []((InRetry /\ Rt.e.cls = "other") =>
          /\ pc[1] \in {"rt_unexpected", "rt_raise"}
          /\ pc[1] = "rt_raise" => Rt.raised = Rt.e
          /\ Rt.e.attempt = Rt.calls
          /\ Rt.retries = Rt.calls - 1 /\ Len(Rt.waits) = Rt.calls - 1)
  /\ [][(InRetry /\ pc[1] = "rt_raise") => pc'[1] = "idle"]_vars

\* the second attempt raised an unexpected exception, which is propagated
C16_Witness ==
  /\ InRetry /\ pc[1] = "rt_raise"
  /\ Rt.raised = [cls |-> "other", attempt |-> 2]

\* C17: with max_retries >= 1, when every attempt failed with a retryable
\* error the wrapper raises the error of the last attempt, and it returns
\* normally only if an invocation of func returned.
C17_LastErrorRaised ==
  (InRetry /\ Rt.max_retries >= 1) =>
    /\ (pc[1] = "rt_raise" /\ Rt.raised.cls = "retryable") =>
          (Rt.raised.attempt = Rt.max_retries /\ Rt.calls = Rt.max_retries)
    /\ Rt.retries >= Rt.max_retries => pc[1] = "rt_raise"
    /\ pc[1] = "rt_ret" => Rt.ok

\* three attempts failed and the error of the third one is raised
C17_Witness ==
  /\ InRetry /\ pc[1] = "rt_raise"
  /\ Rt.raised = [cls |-> "retryable", attempt |-> MaxRetries]
\* C18: an accessor whose construction failed with a transient error has
\* attempted the construction AccessorRetries times before it returns None.
C18_Orig ==
  [][\A t \in Threads :
       (Returns(t) /\ IsAccessor(t) /\ loc[t].err = "transient")
         => loc[t].attempts = AccessorRetries]_vars

\* C19: a construction that fails with a permanent error does not change
\* the breaker's failure_count.
C19_Orig ==
  [][\A t \in Threads :
       (IsAccessor(t) /\ loc[t].err = "permanent")
         => cb_failure_count'[Svc(t)] = cb_failure_count[Svc(t)]]_vars

\* a force_refresh_client call of thread t ends in this step
ForceRefreshEnds(t) ==
  /\ loc[t].op = "force_refresh"
  /\ pc[t] \in {"fr_skip", "rst_time"}
  /\ pc'[t] = "idle"

\* C20: force_refresh_client leaves the service without a cache entry and
\* its breaker closed with failure_count = 0, whether or not the service had
\* an entry.
C20_Orig ==
  [][\A t \in Threads :
       ForceRefreshEnds(t) =>
         /\ clients'[Svc(t)] = Absent
         /\ cb_state'[Svc(t)] = CLOSED
         /\ cb_failure_count'[Svc(t)] = 0]_vars

\* C21: refresh_clients leaves no service with a cache entry, and an
\* accessor called next for an enabled service whose breaker is not open
\* finds no entry, passes the guard, takes a permit and attempts a
\* construction; it does not go to the return with a cached handle.
C21_RefreshEvicts ==
  [][/\ (pc[1] = "idle" /\ pc'[1] = "idle")
          => \A s \in Services : clients'[s] = Absent
     /\ (IsAccessor(1) /\ enabled[Svc(1)] /\ cb_state[Svc(1)] # OPEN) =>
          /\ (pc[1] = "check" /\ clients[Svc(1)] = Absent) => pc'[1] = "guard"
          /\ pc[1] = "guard" => pc'[1] = "acquire"
          /\ pc[1] = "acquire" => (pc'[1] = "construct" /\ loc'[1].acq)
          /\ pc[1] = "construct" => loc'[1].con]_vars

\* a handle had been built and cached, the cache was cleared, and the next
\* call is at its construction
C21_Witness ==
  /\ IsAccessor(1) /\ pc[1] = "construct"
  /\ health[Svc(1)].success_count >= 1
  /\ \A s \in Services : clients[s] = Absent

\* a reset_circuit_breakers call of thread t ends in this step
ResetEnds(t) ==
  /\ loc[t].op = "reset"
  /\ pc[t] \in {"rst_time", "rst_warn"}
  /\ pc'[t] = "idle"

\* the breaker of s is closed with failure_count = 0 and no last_failure_time
\* after this step
Cleared(s) ==
  /\ cb_state'[s] = CLOSED
  /\ cb_failure_count'[s] = 0
  /\ cb_last_failure_time'[s] = NoTime

\* C22: reset_circuit_breakers(name) leaves the breaker of that service
\* closed with failure_count = 0 and last_failure_time cleared, whatever its
\* state was; without a name it does so for every breaker; with a name that
\* is not the name of a service no step of it changes any breaker.
C22_Orig ==
  [][/\ ResetEnds(1) =>
          /\ loc[1].arg \in Services => Cleared(loc[1].arg)
          /\ loc[1].arg = "all" => \A s \in Services : Cleared(s)
     /\ (loc[1].op = "reset" /\ loc[1].arg \notin Services \cup {"all"})
          => UNCHANGED <<cb_state, cb_failure_count, cb_last_failure_time>>]_vars

\* C23: what other services do never makes an accessor of an enabled
\* service fail: when no other call for the same service holds a permit, an
\* accessor is on its failure path (it records a failure and returns None)
\* only after its own construction was attempted and raised.
C23_Orig ==
  \A t \in DOMAIN pc :
    (/\ IsAccessor(t) /\ enabled[Svc(t)] /\ loc[t].exc
     /\ \A u \in DOMAIN pc \ {t} : HoldsPermit(u) => Svc(u) # Svc(t))
      => loc[t].con

\* no thread is inside CircuitBreaker._on_failure of service s
NoFailureInProgress(s) ==
  \A t \in DOMAIN pc :
    ~(Svc(t) = s /\ pc[t] \in {"rec_fail", "fail_read", "fail_write", "fail_open"})

\* C24: accessor calls of one service that fail concurrently, with no
\* success and no reset in between, are all counted: once they have recorded
\* their failures the breaker's failure_count equals the monitor's
\* failure_count and consecutive_failures, and the breaker is open when the
\* count has reached failure_threshold.
C24_Orig ==
  \A s \in Services :
    (health[s].success_count = 0 /\ NoFailureInProgress(s)) =>
      /\ cb_failure_count[s] = health[s].failure_count
      /\ health[s].consecutive_failures = health[s].failure_count
      /\ cb_failure_count[s] >= failure_threshold[s] => cb_state[s] = OPEN

\* the report thread 1 is returning, and the record it was computed from
Report == loc[1].report
Rec == health[Svc(1)]

\* C25: the status get_health_status returns is computed from the counters
\* at the time of the read: unknown exactly when no call is recorded; else
\* critical exactly at 5 or more consecutive failures; else degraded
\* exactly at 3 or more; else warning exactly when fewer than 8 of 10 calls
\* succeeded; else healthy. After 5 record_failure calls in a row, whatever
\* was recorded before them, the status is critical.
C25_StatusPrecedence ==
  pc[1] = "hs_ret" =>
    LET total == Rec.success_count + Rec.failure_count
        cf == Rec.consecutive_failures
        low == 10 * Rec.success_count < 8 * total
    IN /\ Report.status \in {"unknown", "critical", "degraded", "warning", "healthy"}
       /\ Report.status = "unknown" <=> total = 0
       /\ total > 0 =>
            /\ Report.status = "critical" <=> cf >= 5
            /\ Report.status = "degraded" <=> (cf >= 3 /\ cf < 5)
            /\ Report.status = "warning" <=> (cf < 3 /\ low)
            /\ Report.status = "healthy" <=> (cf < 3 /\ ~low)
       /\ fail_run[Svc(1)] >= 5 => Report.status = "critical"

\* a success and then five failures were recorded, and the status is read
C25_Witness ==
  /\ pc[1] = "hs_ret" /\ Report.status = "critical"
  /\ Rec.success_count >= 1 /\ fail_run[Svc(1)] >= 5

\* C26: record_success adds 1 to success_count, sets consecutive_failures
\* to 0 and leaves failure_count alone; record_failure adds exactly 1 to
\* failure_count and to consecutive_failures, stores the error it is given
\* in last_error and leaves success_count alone; either call leaves a record
\* for the service (created from zero counts on first use) and touches no
\* record of another service.
C26_Recording ==
  [][LET s == Svc(1)
         h == health[s]
         g == health'[s]
     IN /\ (pc[1] = "mon_succ" /\ pc'[1] = "idle") =>
             /\ g.present
             /\ g.success_count = h.success_count + 1
             /\ g.consecutive_failures = 0
             /\ g.failure_count = h.failure_count
             /\ g.last_error = h.last_error
        /\ (pc[1] = "mon_fail" /\ pc'[1] = "idle") =>
             /\ g.present
             /\ g.failure_count = h.failure_count + 1
             /\ g.consecutive_failures = h.consecutive_failures + 1
             /\ g.last_error = loc[1].err
             /\ g.success_count = h.success_count
        /\ ~h.present => (h.success_count = 0 /\ h.failure_count = 0
                            /\ h.consecutive_failures = 0)
        /\ \A o \in Services \ {s} : health'[o] = health[o]]_vars

\* failures, then a success, then a failure with another error are recorded
\* for one service while the other has no record yet
C26_Witness ==
  \E s \in Services :
    /\ pc[1] = "idle"
    /\ health[s].success_count = 1 /\ health[s].failure_count >= 3
    /\ health[s].consecutive_failures = 1
    /\ health[s].last_error = "permanent"
    /\ \E o \in Services : ~health[o].present

\* the summary health_check is returning and the entries of its report
Summary == loc[1].hc.summary
Entries == loc[1].hc.health_status

\* C27: in the report of health_check, healthy_services is the number of
\* enabled services whose entry has status healthy, critical_services the
\* number of enabled services whose entry has status critical,
\* enabled_services the number of enabled services and total_services the
\* number of services, so healthy + critical <= enabled <= total; and the
\* utilization is active_connections / max_connections.
C27_SummaryCounts ==
  pc[1] = "hc_ret" =>
    /\ Summary.healthy_services
          = Cardinality({s \in Services : enabled[s] /\ Entries[s].status = "healthy"})
    /\ Summary.critical_services
          = Cardinality({s \in Services : enabled[s] /\ Entries[s].status = "critical"})
    /\ Summary.enabled_services = Cardinality({s \in Services : enabled[s]})
    /\ Summary.total_services = Cardinality(Services)
    /\ Summary.healthy_services + Summary.critical_services <= Summary.enabled_services
    /\ Summary.enabled_services <= Summary.total_services
    /\ Summary.connection_pool.utilization = <<active_connections, MaxConnections>>

\* both services enabled, one reported healthy and one critical, with a
\* permit in use
C27_Witness ==
  /\ pc[1] = "hc_ret"
  /\ Summary.healthy_services = 1 /\ Summary.critical_services = 1
  /\ Summary.enabled_services = 2
  /\ active_connections = 1

\* C28: in every reachable state, also while failures are recorded and
\* breakers are reset by hand at the same time, an open breaker has its
\* last_failure_time set.
C28_Orig ==
  \A s \in Services : cb_state[s] = OPEN => cb_last_failure_time[s] # NoTime

\* C29: with one caller at a time, between operations (and while a wrapped
\* function runs) a closed breaker has failure_count < failure_threshold and
\* an open or half open one has failure_count >= failure_threshold; a
\* breaker goes from closed to open only in the _on_failure call that brings
\* failure_count to failure_threshold, after failure_threshold failures
\* with no success or reset in between.
C29_CountMatchesState ==
  /\ [](pc[1] \in {"idle", "cb_func"} =>
          \A s \in Services :
            /\ cb_state[s] = CLOSED => cb_failure_count[s] < failure_threshold[s]
            /\ cb_state[s] \in {OPEN, HALF_OPEN}
                 => cb_failure_count[s] >= failure_threshold[s])
  /\ [][\A s \in Services :
          (cb_state[s] = CLOSED /\ cb_state'[s] = OPEN) =>
            /\ pc[1] = "fail_open" /\ Svc(1) = s
            /\ cb_failure_count[s] = failure_threshold[s]
            /\ cb_run[s] = failure_threshold[s]]_vars

\* a breaker that was closed by a success after earlier failures is about to
\* open on its failure_threshold-th failure since then
C29_Witness ==
  /\ pc[1] = "fail_open" /\ cb_state[Svc(1)] = CLOSED
  /\ cb_failure_count[Svc(1)] = failure_threshold[Svc(1)]
  /\ health[Svc(1)].success_count >= 1
  /\ cb_last_failure_time[Svc(1)] > 0

\* C30: no step of an accessor, of record_success or record_failure, of a
\* reset, of force_refresh_client, of refresh_clients or of health_check
\* makes a service's success_count or failure_count smaller, and
\* consecutive_failures gets smaller only by being set to 0 in a step that
\* records a success.
C30_CountersMonotonic ==
  [][\A s \in Services :
       /\ health'[s].success_count >= health[s].success_count
       /\ health'[s].failure_count >= health[s].failure_count
       /\ health'[s].consecutive_failures < health[s].consecutive_failures
            => (/\ health'[s].consecutive_failures = 0
                /\ health'[s].success_count = health[s].success_count + 1)]_vars

\* health_check returns after failures and then a success were recorded for
\* a service whose breaker has been reset
C30_Witness ==
  /\ pc[1] = "hc_ret"
  /\ \E s \in Services : /\ health[s].failure_count >= 2
                          /\ health[s].success_count >= 1
                          /\ health[s].consecutive_failures = 0
                          /\ cb_failure_count[s] = 0 /\ cb_run[s] = 0

\* C31: no lock is shared across services: a thread that reads or updates
\* the health record of one service never waits for a thread that is reading
\* or updating the record of another service, and the lock of a breaker is
\* only ever held by a call through that breaker.
C31_Orig ==
  /\ \A t, u \in Threads :
       (pc[t] = "hm_wait" /\ u \in MonitorLockHolders) => Svc(u) = Svc(t)
  /\ \A s \in Services : cb_lock[s] # 0 => Svc(cb_lock[s]) = s

\* C32: no step of an accessor, of record_success / record_failure, of
\* reset_circuit_breakers(name) or of force_refresh_client, called for one
\* service, changes the breaker state, failure_count or last_failure_time,
\* the health record or the cache entry of another service.
C32_OtherServicesUntouched ==
  [][(pc[1] # "idle" \/ pc'[1] # "idle") =>
       LET l == IF pc[1] = "idle" THEN loc'[1] ELSE loc[1] IN
       l.op \in {"get_generic", "get_dynamodb", "record", "reset", "force_refresh"} =>
         \A o \in Services \ {l.svc} :
           /\ clients'[o] = clients[o]
           /\ cb_state'[o] = cb_state[o]
           /\ cb_failure_count'[o] = cb_failure_count[o]
           /\ cb_last_failure_time'[o] = cb_last_failure_time[o]
           /\ health'[o] = health[o]]_vars

\* force_refresh_client of a service with recorded failures is about to
\* evict its entry while the other service has a cached handle, a health
\* record and a failure noted on its breaker
C32_Witness ==
  \E s, o \in Services :
    /\ s # o /\ loc[1].op = "force_refresh" /\ Svc(1) = s /\ pc[1] = "fr_del"
    /\ health[s].failure_count >= 1
    /\ clients[o] > NoneVal /\ health[o].success_count >= 1
    /\ cb_last_failure_time[o] # NoTime

\* C33: once a breaker is half open, one wrapped call is admitted as the
\* trial: at most one admitted call is in progress per breaker, and no call
\* is admitted while the breaker is (still) half open, i.e. before the
\* outcome of the trial has closed or opened it.
C33_Orig ==
  /\ [](\A s \in Services :
          Cardinality({t \in Threads : loc[t].op = "cb_call" /\ Svc(t) = s
                                         /\ pc[t] \notin {"idle", "cb_reject"}}) <= 1)
  /\ [][\A t \in Threads :
          (pc[t] = "idle" /\ pc'[t] = "cb_func")
            => cb_state[loc'[t].svc] # HALF_OPEN]_vars

\* C34: accessor calls that run at the same time for a service without a
\* cache entry construct at most once between them (there is no refresh
\* here that could call for a second construction), and a caller that gets
\* a handle gets the one that is in the cache from then on.
C34_Orig ==
  /\ [](\A s \in Services :
          Cardinality({t \in DOMAIN pc :
                         IsAccessor(t) /\ Svc(t) = s /\ loc[t].con}) <= 1)
  /\ [][\A t \in DOMAIN pc :
          (Returns(t) /\ Returned(t) > NoneVal)
            => /\ clients'[Svc(t)] = Returned(t)
               /\ \A u \in DOMAIN pc : (IsAccessor(u) /\ Svc(u) = Svc(t) /\ u # t)
                     => loc[u].res \in {Absent, Returned(t)}]_vars

\* C35: health_check only observes: no step of it, from its call to its
\* return, changes the client cache, a breaker's state, failure_count or
\* last_failure_time, a health record or the pool's active_connections.
C35_Orig ==
  [][(loc[1].hc.active \/ loc'[1].hc.active) =>
       UNCHANGED <<clients, cb_state, cb_failure_count, cb_last_failure_time,
                   health, active_connections>>]_vars

\* C36: the accessor call that follows a reset_circuit_breakers(name) of an
\* enabled service whose breaker was open, with no other operation on the
\* service in between, returns a handle or has attempted a construction: it
\* does not return None without trying.
C36_Orig ==
  [][\A t \in Threads :
       (Returns(t) /\ IsAccessor(t) /\ enabled[Svc(t)] /\ reset_open[Svc(t)]
          /\ Returned(t) = NoneVal)
         => loc[t].con]_vars

\* C37: a call that is refused because the breaker is open (a wrapped call
\* on its way out with "Circuit breaker OPEN", or an accessor of an enabled
\* service that finds the breaker OPEN at its breaker check) changes neither
\* the breaker's failure_count nor its last_failure_time (nor its state),
\* from its entry to its return; and a wrapped call that finds the breaker
\* open is admitted exactly when recovery_timeout has passed since
\* last_failure_time, however many calls were refused before it.
C37_RefusalLeavesBreaker ==
  [][\A t \in Threads :
       /\ (\/ pc[t] = "cb_reject"
           \/ /\ IsAccessor(t) /\ enabled[Svc(t)]
              /\ \/ (pc[t] = "guard" /\ cb_state[Svc(t)] = OPEN)
                 \/ (pc[t] \in {"store", "ret"} /\ loc[t].rej)
                 \/ pc[t] = "ret_none"
           \/ (pc[t] = "idle" /\ pc'[t] = "cb_reject")) =>
            LET s == IF pc[t] = "idle" THEN loc'[t].svc ELSE Svc(t) IN
            /\ cb_failure_count'[s] = cb_failure_count[s]
            /\ cb_last_failure_time'[s] = cb_last_failure_time[s]
            /\ cb_state'[s] = cb_state[s]
       /\ (pc[t] = "idle" /\ pc'[t] \in {"cb_func", "cb_reject"}
             /\ cb_state[loc'[t].svc] = OPEN) =>
            LET s == loc'[t].svc IN
            pc'[t] = "cb_func" <=>
              /\ cb_last_failure_time[s] # NoTime
              /\ now * TimeUnit >= cb_last_failure_time[s] * TimeUnit
                                     + recovery_timeout[s]]_vars

\* a breaker that opened at time 0 has refused two accessor calls (no
\* construction was ever tried and nothing is cached); at time 1 a wrapped
\* call is admitted as the trial
C37_Witness ==
  /\ pc[1] = "cb_func" /\ loc[1].op = "cb_call"
  /\ cb_state[Svc(1)] = HALF_OPEN /\ cb_last_failure_time[Svc(1)] = 0 /\ now = 1
  /\ streak[Svc(1)] >= 2 /\ clients[Svc(1)] = Absent
  /\ health[Svc(1)] = NoHealth

\* C38: the breaker's failure_count never exceeds the monitor's
\* consecutive_failures of the service, and a breaker is never open while
\* the monitor shows no consecutive failures, also after accessor calls of
\* the service have run at the same time. The property is stated for the
\* states in which no call of the service is in progress, the least the
\* claim asks for.
C38_Orig ==
  \A s \in Services :
    (\A t \in DOMAIN pc : ~(IsAccessor(t) /\ Svc(t) = s)) =>
      /\ cb_failure_count[s] <= health[s].consecutive_failures
      /\ cb_state[s] = OPEN => health[s].consecutive_failures > 0


\* C39: an accessor that finds the pool exhausted goes on to record a
\* failure of its service: the monitor's failure_count and
\* consecutive_failures and the breaker's failure_count each go up by
\* exactly 1, the breaker is opened when its count has reached
\* failure_threshold, None is returned, and no step of the call changes
\* active_connections.
C39_ExhaustionRecorded ==
  [][/\ (pc[1] = "acquire" /\ pc'[1] # "acquire"
           /\ active_connections >= MaxConnections)
          => (pc'[1] = "rec_fail" /\ active_connections' = active_connections)
     /\ ((IsAccessor(1) /\ loc[1].err = "pool") /\ pc'[1] # pc[1]) =>
          LET s == Svc(1)
              h == health[s]
              g == health'[s]
          IN /\ active_connections' = active_connections
             /\ IF pc[1] = "rec_fail"
                  THEN /\ g.failure_count = h.failure_count + 1
                       /\ g.consecutive_failures = h.consecutive_failures + 1
                       /\ g.success_count = h.success_count
                  ELSE g = h
             /\ IF pc[1] = "fail_write"
                  THEN /\ cb_failure_count'[s] = cb_failure_count[s] + 1
                       /\ cb_failure_count'[s] >= failure_threshold[s]
                            => pc'[1] = "fail_open"
                  ELSE cb_failure_count'[s] = cb_failure_count[s]
             /\ pc[1] = "fail_open" => cb_state'[s] = OPEN
             /\ Returns(1) =>
                  /\ Returned(1) = NoneVal
                  /\ cb_failure_count[s] >= failure_threshold[s]
                       => cb_state[s] = OPEN]_vars

\* the third failure in a row of a service is a refused acquire, and it is
\* about to open the breaker
C39_Witness ==
  /\ (IsAccessor(1) /\ loc[1].err = "pool") /\ pc[1] = "fail_open"
  /\ cb_failure_count[Svc(1)] = failure_threshold[Svc(1)]
  /\ health[Svc(1)].consecutive_failures = failure_threshold[Svc(1)]
  /\ active_connections = MaxConnections

\* C40: get_dynamodb_resource and the generic accessor, run from states in
\* which their services are alike (same enabled flag, cache entry, breaker
\* and health record, same pool counter) and with the same outcome of the
\* construction (or of the acquire), give the same result, a handle or
\* None, and leave the cache entry, the breaker, the health record and the
\* pool counter in the same state.
C40_Orig ==
  (AtReturn(1) /\ AtReturn(2) /\ loc[1].err = loc[2].err) =>
    /\ Kind(Returned(1)) = Kind(Returned(2))
    /\ Mirror
    /\ active_connections = direct_held
====
